---- MODULE Spec2Model ----
(***************************************************************************)
(* Payment transaction and subscription dunning engine of the LMS:         *)
(*   subscriptions/tasks.py  process_subscription_renewals,                *)
(*                           process_dunning_schedule                      *)
(*   payments/tasks.py       initiate_subscription_payment,                *)
(*                           cleanup_expired_intents                       *)
(*   payments/models.py      PaymentIntent, Payment, WebhookEvent,         *)
(*                           LedgerEntry (uniqueness constraints)          *)
(*   payments/providers/mpesa.py  MPesaProvider.parse_callback             *)
(* Time is counted in hours.  The database is one shared state; every      *)
(* Celery task is a process whose steps are its database statements.       *)
(***************************************************************************)
EXTENDS Integers, Sequences, FiniteSets, TLC

VARIABLES
    now,          \* wall clock (timezone.now()), in hours
    sub,          \* Subscription rows: status, current_period_end, grace_until, ended_at
    paymethod,    \* method_type of the user's default active PaymentMethod, or "none"
    schedule,     \* the default active DunningSchedule row
    attempts,     \* SubscriptionRenewalAttempt rows, in creation order
    intents,      \* PaymentIntent rows, in creation order
    enqueued,     \* attempt ids handed to initiate_subscription_payment.delay
    delivered,    \* how often the broker delivered each attempt's task
    renewal_result, \* what the latest process_subscription_renewals run returned
    dw,           \* process_dunning_schedule runs, one per worker
    termApplied,  \* per subscription: how often the grace branch wrote a terminal status
    notified,     \* send_dunning_notification.delay calls: <<subscription, attempt_number>>
    events,       \* WebhookEvent rows
    payments,     \* Payment rows
    ledger,       \* LedgerEntry rows, in creation order
    handlers,     \* webhook deliveries being handled
    settled,      \* per provider_event_id: how often settlement started
    post_log,     \* LedgerRecorder.Post calls made outside settlement, with their result
    orders,       \* Order rows
    reconcile_result, \* what the latest reconcile_daily_payments run returned
    admin_alerts, \* send_admin_alert.delay calls
    pending_push, \* initiate_subscription_payment runs waiting for the provider's answer
    gateways,     \* provider objects: _access_token and _token_expiry of each instance
    clock,        \* timezone.now() as the gateways read it, in seconds
    oauth_tokens, \* the access tokens the providers have issued, with their expiry
    last_call,    \* what the latest get_access_token call did and returned
    callback,     \* the callback payload a provider posted
    callback_data, \* what parse_callback returned for it
    payer,        \* the phone number stored on the payer's PaymentMethod
    requests,     \* the payment requests sent to the providers
    notification_log,        \* NotificationLog rows, in creation order
    notification_preference, \* the user's NotificationPreference row
    acs_settings           \* which Azure Communication Services settings are set

vars == <<now, sub, paymethod, schedule, attempts, intents, enqueued, delivered,
          renewal_result, dw, termApplied, notified,
          events, payments, ledger, handlers, settled, post_log,
          orders, reconcile_result, admin_alerts, pending_push,
          gateways, clock, oauth_tokens, last_call, callback, callback_data,
          payer, requests, notification_log, notification_preference, acs_settings>>

billingVars == <<now, sub, paymethod, schedule, attempts, intents, enqueued, delivered,
                 renewal_result, dw, termApplied, notified>>

webhookVars == <<events, payments, ledger, handlers, settled, post_log>>

reconVars == <<orders, reconcile_result, admin_alerts>>

gatewayVars == <<gateways, clock, oauth_tokens, last_call>>

callbackVars == <<callback, callback_data>>

\* the state the billing tasks and the webhook processor never touch
requestVars == <<payer, requests>>

\* the state of the notification sender
notificationVars == <<notification_log, notification_preference, acs_settings>>

sideVars == <<reconVars, pending_push, gatewayVars, callbackVars, requestVars,
              notificationVars>>

----------------------------------------------------------------------------
\* Bounds of the model

\* number of clock steps the model takes
MaxTicks == 2
\* number of retry attempts the model lets the dunning sweeps create
MaxRetries == 2
\* repeated deliveries of initiate_subscription_payment messages (at-least-once broker)
MaxRedeliveries == 1

----------------------------------------------------------------------------
\* Program constants

\* crontab(hour='*/6'): the dunning sweep runs every 6 hours
SweepIntervalHours == 6
\* timedelta.days: whole days of a difference counted in hours
HoursPerDay == 24
\* expires_at = timezone.now() + timedelta(hours=1)
IntentTTLHours == 1
\* Price.amount of the seeded subscription price, Decimal('5000.00'), the
\* order.total of a renewal order; amounts are counted in cents
SeedPrice == 500000
\* amounts are DecimalFields with decimal_places=2
CentsPerShilling == 100
\* a null DateTimeField / ForeignKey
NoTime == -1
NoIntent == 0

Subs == {"s1", "s2"}
DunningWorkers == {"d1", "d2"}

\* PaymentMethod.METHOD_TYPE_CHOICES, plus "none" for a user without a default active method
METHOD_TYPE_CHOICES == {"mpesa", "airtel", "card_stub"}

\* Subscription.STATUS_CHOICES
SubscriptionStatus == {"active", "past_due", "unpaid", "cancelled", "incomplete", "trialing"}

\* SubscriptionRenewalAttempt.STATUS_CHOICES
AttemptStatus == {"pending", "processing", "succeeded", "failed"}

\* PaymentIntent.STATUS_CHOICES
IntentStatus == {"created", "requires_action", "processing", "succeeded", "failed", "cancelled"}

\* DunningSchedule.get_retry_days(): the seeded schedule [0, 1, 3, 7]
get_retry_days == <<0, 1, 3, 7>>

\* a fixed enumeration of the subscriptions (the order a queryset returns them in)
SubOrder == <<"s1", "s2">>

RECURSIVE FilterSeq(_, _)
FilterSeq(q, S) ==
    IF q = <<>> THEN <<>>
    ELSE IF Head(q) \in S THEN <<Head(q)>> \o FilterSeq(Tail(q), S)
         ELSE FilterSeq(Tail(q), S)

----------------------------------------------------------------------------
\* Queries

\* subscription.renewal_attempts: ids of the attempts of subscription s
renewal_attempts(s) == {a \in 1..Len(attempts) : attempts[a].subscription = s}

\* the in-flight guard of process_subscription_renewals (tasks.py 37-41)
existing_attempt(s) ==
    {a \in renewal_attempts(s) :
        /\ attempts[a].scheduled_at >= sub[s].current_period_end - 1
        /\ attempts[a].status \in {"pending", "processing"}}

\* renewal_attempts.filter(status='failed').order_by('-created_at').first():
\* the most recently created failed attempt, 0 when there is none
latest_attempt(s) ==
    LET failed == {a \in renewal_attempts(s) : attempts[a].status = "failed"}
    IN  IF failed = {} THEN 0
        ELSE CHOOSE a \in failed : \A b \in failed : b <= a

\* (now - latest_attempt.created_at).days
days_since_failure(t, a) == (t - attempts[a].created_at) \div HoursPerDay

\* a test that also holds once an offset is passed
should_retry_catch_up(days) == \E k \in 1..Len(get_retry_days) : get_retry_days[k] <= days

\* the loop over retry_days (tasks.py 134-138)
should_retry(days) == \E k \in 1..Len(get_retry_days) : get_retry_days[k] = days

\* unique=True on PaymentIntent.idempotency_key: the INSERT is refused
\* when a row with that key exists
idempotency_key_taken(key) == \E i \in 1..Len(intents) : intents[i].idempotency_key = key

\* a filter that looks at expires_at alone
expired_intents_any_status(t) ==
    {i \in 1..Len(intents) : intents[i].expires_at < t}

\* the filter of cleanup_expired_intents (tasks.py 183-186)
expired_intents(t) ==
    {i \in 1..Len(intents) :
        /\ intents[i].status \in {"created", "requires_action"}
        /\ intents[i].expires_at < t}

----------------------------------------------------------------------------
\* Rows

\* SubscriptionRenewalAttempt.objects.create(...): origin and pushes are history
\* fields (who created the row; how many provider requests were sent for it)
NewAttempt(s, n, t, sched, who) ==
    [subscription |-> s, attempt_number |-> n, status |-> "pending",
     payment_intent |-> NoIntent, error_message |-> "",
     created_at |-> t, scheduled_at |-> sched,
     origin |-> who, pushes |-> 0]

\* PaymentIntent.objects.create(...) of initiate_subscription_payment;
\* attempt and cancels are history fields (the attempt the run was for; how often
\* cleanup_expired_intents rewrote the row)
NewIntent(a, key, prov, t) ==
    [idempotency_key |-> key, status |-> "created", provider |-> prov,
     amount |-> SeedPrice,
     expires_at |-> t + IntentTTLHours, checkout_request_id |-> 0,
     provider_transaction_id |-> 0, error_message |-> "",
     attempt |-> a, cancels |-> 0]

\* provider=payment_method.method_type if it is mpesa or airtel, else 'mpesa'
intent_provider(m) == IF m \in {"mpesa", "airtel"} THEN m ELSE "mpesa"

\* f'sub_{subscription.id}_{attempt.attempt_number}_{uuid.uuid4().hex[:8]}'
idempotency_key(s, n, r) == <<"sub", s, n, r>>

\* uuid.uuid4().hex[:8]: a value some intent of (s, n) already carries, or a
\* new one; new values are interchangeable, so the least unused one stands for them
Suffixes(s, n) ==
    LET used == {r \in 1..Len(intents) : idempotency_key_taken(idempotency_key(s, n, r))}
    IN  used \cup {Cardinality(used) + 1}

IdleDunning == [pc |-> "idle", now |-> 0, queue |-> <<>>, retry |-> FALSE, number |-> 0]

\* the rows a sweep's queryset holds: each subscription as it was when the
\* queryset was evaluated
Snapshot(S) == [i \in 1..Len(FilterSeq(SubOrder, S)) |->
                   [id |-> FilterSeq(SubOrder, S)[i]] @@ sub[FilterSeq(SubOrder, S)[i]]]

----------------------------------------------------------------------------
\* process_subscription_renewals (subscriptions/tasks.py 13-94)

\* lines 25-29: the queryset of due subscriptions
subscriptions_due == {s \in Subs : sub[s].status = "active" /\ sub[s].current_period_end <= now}

\* a sweep in which Decimal resolves: for every due subscription without an
\* in-flight attempt an Order, an attempt numbered count + 1 and its payment
\* task are created
process_subscription_renewals_creating ==
    LET q == FilterSeq(SubOrder, {s \in subscriptions_due : existing_attempt(s) = {}})
    IN  /\ attempts' = attempts \o
                          [i \in 1..Len(q) |->
                              NewAttempt(q[i], Cardinality(renewal_attempts(q[i])) + 1,
                                         now, now, "renewal")]
        /\ delivered' = delivered \o [i \in 1..Len(q) |-> 0]
        /\ enqueued' = enqueued \cup ((Len(attempts) + 1)..(Len(attempts) + Len(q)))
        /\ orders' = orders \o [i \in 1..Len(q) |-> [status |-> "pending"]]
        /\ renewal_result' =
              [renewed |-> Len(q), failed |-> 0,
               skipped |-> Cardinality({s \in subscriptions_due : existing_attempt(s) # {}})]
        /\ UNCHANGED <<now, sub, paymethod, schedule, intents, dw, termApplied, notified>>
        /\ UNCHANGED <<webhookVars, reconcile_result, admin_alerts, pending_push,
                       gatewayVars, callbackVars, requestVars, notificationVars>>

\* One sweep.  A due subscription with an in-flight attempt is skipped (lines
\* 36-45).  For any other the arguments of Order.objects.create are evaluated
\* (lines 51-57), and tax_amount=Decimal('0.00') names Decimal, which the
\* module never imports (lines 4-9, 18-20): NameError is raised before any row
\* is written, the handler at line 86 counts the subscription as failed, and
\* lines 60-84 never run.  The sweep writes no row; it returns its counts.
process_subscription_renewals ==
    /\ renewal_result' =
          [renewed |-> 0,
           failed |-> Cardinality({s \in subscriptions_due : existing_attempt(s) = {}}),
           skipped |-> Cardinality({s \in subscriptions_due : existing_attempt(s) # {}})]
    /\ UNCHANGED <<now, sub, paymethod, schedule, attempts, intents, enqueued, delivered,
                   dw, termApplied, notified>>
    /\ UNCHANGED <<webhookVars, sideVars>>

----------------------------------------------------------------------------
\* process_dunning_schedule (subscriptions/tasks.py 98-176)

\* the attempts the dunning sweeps have created
dunning_attempts == {a \in 1..Len(attempts) : attempts[a].origin = "dunning"}

\* attempts that sweeps already under way may still create
Reserved ==
    LET R[S \in SUBSET DunningWorkers] ==
            IF S = {} THEN 0
            ELSE LET w == CHOOSE x \in S : TRUE
                 IN  Len(dw[w].queue) + R[S \ {w}]
    IN  R[DunningWorkers]

\* the run of worker w after the iteration for the head of its queue: the
\* next iteration, or lines 175-176 (the loop is over, the task returns)
NextIteration(w) ==
    IF Tail(dw[w].queue) = <<>> THEN IdleDunning
    ELSE [pc |-> "loop", now |-> dw[w].now, queue |-> Tail(dw[w].queue),
          retry |-> FALSE, number |-> 0]

\* lines 108-118: the schedule, now, and the queryset of past_due
\* subscriptions; with no past_due subscription the task returns at once
process_dunning_schedule_begin(w) ==
    /\ dw[w].pc = "idle"
    /\ LET due == {s \in Subs : sub[s].status = "past_due"}
       IN  /\ due # {}
           /\ Cardinality(dunning_attempts) + Reserved + Cardinality(due) <= MaxRetries
           /\ dw' = [dw EXCEPT ![w] =
                        [pc |-> "loop", now |-> now, queue |-> Snapshot(due),
                         retry |-> FALSE, number |-> 0]]
    /\ UNCHANGED <<now, sub, paymethod, schedule, attempts, intents, enqueued, delivered,
                   renewal_result, termApplied, notified>>
    /\ UNCHANGED <<webhookVars, sideVars>>

\* lines 122-138 and the count() of line 144: the reads of one iteration.
\* With no failed attempt the iteration ends (`continue`, line 128: the grace
\* check is skipped too).
process_dunning_schedule_decide(w) ==
    /\ dw[w].pc = "loop"
    /\ LET s == Head(dw[w].queue).id
           a == latest_attempt(s)
       IN  dw' = [dw EXCEPT ![w] =
                    IF a = 0 THEN NextIteration(w)
                    ELSE [@ EXCEPT
                            !.pc = "apply",
                            !.retry = should_retry(days_since_failure(dw[w].now, a)),
                            !.number =
                                IF should_retry(days_since_failure(dw[w].now, a))
                                THEN Cardinality(renewal_attempts(s)) + 1 ELSE 0]]
    /\ UNCHANGED <<now, sub, paymethod, schedule, attempts, intents, enqueued, delivered,
                   renewal_result, termApplied, notified>>
    /\ UNCHANGED <<webhookVars, sideVars>>

\* lines 162-169 applied to the row the queryset loaded: the status and
\* ended_at that subscription.save() writes
terminal_action(row, t) ==
    IF schedule.cancel_subscription
    THEN [row EXCEPT !.status = "cancelled", !.ended_at = t]
    ELSE IF schedule.downgrade_to_free
         THEN [row EXCEPT !.status = "unpaid"]
         ELSE row

\* line 162
grace_expired(row, t) == row.grace_until # NoTime /\ t > row.grace_until

\* an iteration that creates the retry and enqueues no notification
process_dunning_schedule_apply_unnotified(w) ==
    /\ dw[w].pc = "apply"
    /\ LET row == Head(dw[w].queue)
           s == row.id
           new == terminal_action(row, dw[w].now)
       IN  /\ IF dw[w].retry
              THEN /\ attempts' = Append(attempts,
                                     NewAttempt(s, dw[w].number, now, dw[w].now, "dunning"))
                   /\ enqueued' = enqueued \cup {Len(attempts) + 1}
                   /\ delivered' = Append(delivered, 0)
                   /\ UNCHANGED notified
              ELSE UNCHANGED <<attempts, enqueued, delivered, notified>>
           /\ IF grace_expired(row, dw[w].now)
              THEN /\ sub' = [sub EXCEPT ![s] =
                                [status |-> new.status,
                                 current_period_end |-> new.current_period_end,
                                 grace_until |-> new.grace_until,
                                 ended_at |-> new.ended_at]]
                   /\ termApplied' = [termApplied EXCEPT ![s] =
                                        IF new.status # row.status THEN @ + 1 ELSE @]
              ELSE UNCHANGED <<sub, termApplied>>
           /\ dw' = [dw EXCEPT ![w] = NextIteration(w)]
    /\ UNCHANGED <<now, paymethod, schedule, intents, renewal_result>>
    /\ UNCHANGED <<webhookVars, sideVars>>

\* lines 140-170: the writes of one iteration.  save() writes every field of
\* the loaded row.
process_dunning_schedule_apply(w) ==
    /\ dw[w].pc = "apply"
    /\ LET row == Head(dw[w].queue)
           s == row.id
           new == terminal_action(row, dw[w].now)
       IN  /\ IF dw[w].retry
              THEN /\ attempts' = Append(attempts,
                                     NewAttempt(s, dw[w].number, now, dw[w].now, "dunning"))
                   /\ enqueued' = enqueued \cup {Len(attempts) + 1}
                   /\ delivered' = Append(delivered, 0)
                   /\ notified' = Append(notified, <<s, dw[w].number>>)
              ELSE UNCHANGED <<attempts, enqueued, delivered, notified>>
           /\ IF grace_expired(row, dw[w].now)
              THEN /\ sub' = [sub EXCEPT ![s] =
                                [status |-> new.status,
                                 current_period_end |-> new.current_period_end,
                                 grace_until |-> new.grace_until,
                                 ended_at |-> new.ended_at]]
                   /\ termApplied' = [termApplied EXCEPT ![s] =
                                        IF new.status # row.status THEN @ + 1 ELSE @]
              ELSE UNCHANGED <<sub, termApplied>>
           /\ dw' = [dw EXCEPT ![w] = NextIteration(w)]
    /\ UNCHANGED <<now, paymethod, schedule, intents, renewal_result>>
    /\ UNCHANGED <<webhookVars, sideVars>>

----------------------------------------------------------------------------
\* initiate_subscription_payment (payments/tasks.py 15-110), one action per
\* way a run of the task ends

\* the broker hands the task of attempt a to a worker: the first delivery, or
\* a repeated one
Redeliveries ==
    LET R[n \in 0..Len(delivered)] ==
            IF n = 0 THEN 0
            ELSE R[n - 1] + (IF delivered[n] > 1 THEN delivered[n] - 1 ELSE 0)
    IN  R[Len(delivered)]

Deliverable(a) ==
    /\ a \in enqueued
    /\ delivered[a] = 0 \/ Redeliveries < MaxRedeliveries

\* a run that marks the attempt failed and leaves the subscription as it is
initiate_subscription_payment_no_method_attempt_only(a) ==
    /\ Deliverable(a)
    /\ paymethod[attempts[a].subscription] = "none"
    /\ delivered' = [delivered EXCEPT ![a] = @ + 1]
    /\ attempts' = [attempts EXCEPT ![a].status = "failed",
                                    ![a].error_message = "No default payment method"]
    /\ UNCHANGED <<now, sub, paymethod, schedule, intents, enqueued,
                   renewal_result, dw, termApplied, notified>>
    /\ UNCHANGED <<webhookVars, sideVars>>

\* lines 38-46: the user has no default active payment method
initiate_subscription_payment_no_method(a) ==
    /\ Deliverable(a)
    /\ paymethod[attempts[a].subscription] = "none"
    /\ delivered' = [delivered EXCEPT ![a] = @ + 1]
    /\ attempts' = [attempts EXCEPT ![a].status = "failed",
                                    ![a].error_message = "No default payment method"]
    /\ sub' = [sub EXCEPT ![attempts[a].subscription].status = "past_due"]
    /\ UNCHANGED <<now, paymethod, schedule, intents, enqueued,
                   renewal_result, dw, termApplied, notified>>
    /\ UNCHANGED <<webhookVars, sideVars>>

\* lines 49-62 and 101-110: a row with the generated key exists, the INSERT
\* raises IntegrityError (unique=True), the handler marks the attempt failed
\* and re-raises
initiate_subscription_payment_duplicate_key(a, r) ==
    /\ Deliverable(a)
    /\ LET s == attempts[a].subscription
       IN  /\ paymethod[s] # "none"
           /\ idempotency_key_taken(idempotency_key(s, attempts[a].attempt_number, r))
    /\ attempts' = [attempts EXCEPT ![a].status = "failed",
                                    ![a].error_message = "IntegrityError"]
    /\ delivered' = [delivered EXCEPT ![a] = @ + 1]
    /\ UNCHANGED <<now, sub, paymethod, schedule, intents, enqueued, renewal_result, dw,
                   termApplied, notified>>
    /\ UNCHANGED <<webhookVars, sideVars>>

\* lines 49-66: the INSERT of the intent succeeds and the attempt is saved as
\* processing with the intent linked
created_intent(a, r) ==
    NewIntent(a, idempotency_key(attempts[a].subscription, attempts[a].attempt_number, r),
              intent_provider(paymethod[attempts[a].subscription]), now)

CanCreate(a, r) ==
    /\ Deliverable(a)
    /\ paymethod[attempts[a].subscription] # "none"
    /\ ~idempotency_key_taken(
           idempotency_key(attempts[a].subscription, attempts[a].attempt_number, r))

\* lines 49-99: the provider accepts the push; the response id is stored
\* (CheckoutRequestID for M-Pesa, data.id for Airtel) and the intent saved as
\* requires_action
initiate_subscription_payment_accepted(a, r) ==
    /\ CanCreate(a, r)
    /\ paymethod[attempts[a].subscription] \in {"mpesa", "airtel"}
    /\ intents' = Append(intents,
                     IF paymethod[attempts[a].subscription] = "mpesa"
                     THEN [created_intent(a, r) EXCEPT
                              !.checkout_request_id = Len(intents) + 1,
                              !.status = "requires_action"]
                     ELSE [created_intent(a, r) EXCEPT
                              !.provider_transaction_id = Len(intents) + 1,
                              !.status = "requires_action"])
    /\ attempts' = [attempts EXCEPT ![a].payment_intent = Len(intents) + 1,
                                    ![a].status = "processing",
                                    ![a].pushes = @ + 1]
    /\ delivered' = [delivered EXCEPT ![a] = @ + 1]
    /\ UNCHANGED <<now, sub, paymethod, schedule, enqueued, renewal_result, dw,
                   termApplied, notified>>
    /\ UNCHANGED <<webhookVars, sideVars>>

\* lines 49-79 and 101-110: get_access_token or the push request raises after
\* the intent was created; the handler marks the attempt failed and re-raises.
\* sent tells whether the push request left (a failure of the request) or not
\* (a failure of the token request)
initiate_subscription_payment_raise(a, r, sent) ==
    /\ CanCreate(a, r)
    /\ paymethod[attempts[a].subscription] \in {"mpesa", "airtel"}
    /\ intents' = Append(intents, created_intent(a, r))
    /\ attempts' = [attempts EXCEPT ![a].payment_intent = Len(intents) + 1,
                                    ![a].status = "failed",
                                    ![a].error_message =
                                        IF sent THEN "push failed"
                                        ELSE "authentication failed",
                                    ![a].pushes = IF sent THEN @ + 1 ELSE @]
    /\ delivered' = [delivered EXCEPT ![a] = @ + 1]
    /\ UNCHANGED <<now, sub, paymethod, schedule, enqueued, renewal_result, dw,
                   termApplied, notified>>
    /\ UNCHANGED <<webhookVars, sideVars>>

\* lines 49-66, 71, 86, 99: the method is neither mpesa nor airtel, neither
\* branch is taken and no request is sent
initiate_subscription_payment_no_provider(a, r) ==
    /\ CanCreate(a, r)
    /\ paymethod[attempts[a].subscription] \notin {"mpesa", "airtel"}
    /\ intents' = Append(intents, created_intent(a, r))
    /\ attempts' = [attempts EXCEPT ![a].payment_intent = Len(intents) + 1,
                                    ![a].status = "processing"]
    /\ delivered' = [delivered EXCEPT ![a] = @ + 1]
    /\ UNCHANGED <<now, sub, paymethod, schedule, enqueued, renewal_result, dw,
                   termApplied, notified>>
    /\ UNCHANGED <<webhookVars, sideVars>>

----------------------------------------------------------------------------
\* cleanup_expired_intents (payments/tasks.py 175-196): one UPDATE statement

cleanup_expired_intents ==
    /\ intents' = [i \in 1..Len(intents) |->
                     IF i \in expired_intents(now)
                     THEN [intents[i] EXCEPT !.status = "cancelled",
                                             !.error_message = "Payment intent expired",
                                             !.cancels = @ + 1]
                     ELSE intents[i]]
    /\ UNCHANGED <<now, sub, paymethod, schedule, attempts, enqueued, delivered,
                   renewal_result, dw, termApplied, notified>>
    /\ UNCHANGED <<webhookVars, sideVars>>

----------------------------------------------------------------------------
\* The clock.  Of the sweep times of a day (every 6 hours) the model visits
\* the first two: hour 0 and hour 6 of each day.  A sweep is a handful of
\* database statements, so no sweep spans a clock step.  A run of the payment
\* task waits for the provider (timeout=30 per request, mpesa.py 77, 155):
\* Spec takes a run as one step, SpecIntents takes it statement by statement
\* and lets the clock move during the wait.

AllIdle == \A w \in DunningWorkers : dw[w].pc = "idle"

\* the clock values visited: 0, 6, 24, 30, 48, ...
ClockAfter(k) == (k \div 2) * HoursPerDay + (k % 2) * SweepIntervalHours

Tick ==
    /\ AllIdle
    /\ \E k \in 0..(MaxTicks - 1) :
          /\ now = ClockAfter(k)
          /\ now' = ClockAfter(k + 1)
    /\ UNCHANGED <<sub, paymethod, schedule, attempts, intents, enqueued, delivered,
                   renewal_result, dw, termApplied, notified>>
    /\ UNCHANGED <<webhookVars, sideVars>>

----------------------------------------------------------------------------
\* Initial database.  No code of the repository sets grace_until, and the
\* renewal sweep writes no row, so the first failed attempt, past_due and
\* grace_until are data the sweeps find (entered through the admin site,
\* subscriptions/admin.py).

Profiles == {"due", "renewing", "dunning", "dunning_grace"}

\* the profiles each subscription of the initial database is drawn from
ProfilesOf(s) == IF s = "s1" THEN {"renewing", "dunning", "dunning_grace"} ELSE {"due"}

SubscriptionRow(p) ==
    [status |-> IF p \in {"due", "renewing"} THEN "active" ELSE "past_due",
     current_period_end |-> 0,
     grace_until |-> IF p = "dunning_grace" THEN SweepIntervalHours ELSE NoTime,
     ended_at |-> NoTime]

\* the attempt each subscription starts with: a renewal under way (pending, its
\* payment task enqueued) or the renewal that failed at hour 0
FirstAttempts(profile) ==
    LET q == FilterSeq(SubOrder, {s \in Subs : profile[s] # "due"})
    IN  [i \in 1..Len(q) |->
           [NewAttempt(q[i], 1, 0, 0, "first") EXCEPT
               !.status = IF profile[q[i]] = "renewing" THEN "pending" ELSE "failed"]]

\* the seeded default (downgrade_to_free=True, the model default) and a
\* schedule that cancels
ScheduleChoices ==
    {[cancel_subscription |-> FALSE, downgrade_to_free |-> TRUE],
     [cancel_subscription |-> TRUE, downgrade_to_free |-> FALSE]}

InitBilling ==
    /\ now = 0
    /\ \E profile \in [Subs -> Profiles] :
          /\ \A s \in Subs : profile[s] \in ProfilesOf(s)
          /\ sub = [s \in Subs |-> SubscriptionRow(profile[s])]
          /\ attempts = FirstAttempts(profile)
          /\ delivered = [i \in 1..Len(FirstAttempts(profile)) |-> 0]
          /\ enqueued = {i \in 1..Len(FirstAttempts(profile)) :
                            FirstAttempts(profile)[i].status = "pending"}
    /\ \E m \in METHOD_TYPE_CHOICES \cup {"none"} : paymethod = [s \in Subs |-> m]
    /\ schedule \in ScheduleChoices
    /\ intents = <<>>
    /\ renewal_result = [renewed |-> 0, failed |-> 0, skipped |-> 0]
    /\ dw = [w \in DunningWorkers |-> IdleDunning]
    /\ termApplied = [s \in Subs |-> 0]
    /\ notified = <<>>

NoWebhooks ==
    /\ events = <<>>
    /\ payments = <<>>
    /\ ledger = <<>>
    /\ handlers = <<>>
    /\ settled = <<>>
    /\ post_log = <<>>

\* the provider objects the process holds: two of each class
Gateways == {"mpesa_a", "mpesa_b", "airtel_a", "airtel_b"}

\* the class of a provider object
provider_class(g) == IF g \in {"mpesa_a", "mpesa_b"} THEN "mpesa" ELSE "airtel"

\* _access_token = None
NoToken == 0

\* no get_access_token call has just returned
NoCall == [gateway |-> "none", contacted |-> FALSE, returned |-> NoToken, raised |-> "none"]

\* __init__ leaves both cache fields None; no token was requested yet
NoGateways ==
    /\ gateways = [g \in Gateways |-> [_access_token |-> NoToken, _token_expiry |-> NoTime]]
    /\ clock = 0
    /\ oauth_tokens = <<>>
    /\ last_call = NoCall

\* no payment request was sent
NoRequests ==
    /\ payer = [form |-> "none"]
    /\ requests = {}

\* NotificationPreference defaults (notifications/models.py 141-157): both
\* channels enabled, quiet hours respected, no quiet hours set
DefaultPreference ==
    [email_enabled |-> TRUE, sms_enabled |-> TRUE, respect_quiet_hours |-> TRUE,
     quiet_hours_start |-> NoTime, quiet_hours_end |-> NoTime]

\* no notification was created
NoNotifications ==
    /\ notification_log = <<>>
    /\ notification_preference = DefaultPreference
    /\ acs_settings = [connection_string |-> FALSE, sms_from |-> FALSE]

\* no callback was posted
NoCallbacks ==
    /\ callback = [provider |-> "none"]
    /\ callback_data = [provider |-> "none"]

\* no reconciliation has run, no payment task is waiting for a provider
NoReconcile ==
    /\ pending_push = {}
    /\ orders = <<>>
    /\ reconcile_result = [runs |-> 0, total_payments |-> 0, mismatches |-> 0, issues |-> {}]
    /\ admin_alerts = 0

Init ==
    /\ InitBilling /\ NoWebhooks /\ NoReconcile /\ NoGateways /\ NoCallbacks /\ NoRequests
    /\ NoNotifications

Next ==
    \/ process_subscription_renewals
    \/ \E w \in DunningWorkers : process_dunning_schedule_begin(w)
    \/ \E w \in DunningWorkers : process_dunning_schedule_decide(w)
    \/ \E w \in DunningWorkers : process_dunning_schedule_apply(w)
    \/ \E a \in 1..Len(attempts) : initiate_subscription_payment_no_method(a)
    \/ \E a \in 1..Len(attempts) :
          \E r \in Suffixes(attempts[a].subscription, attempts[a].attempt_number) :
             initiate_subscription_payment_duplicate_key(a, r)
    \/ \E a \in 1..Len(attempts) :
          \E r \in Suffixes(attempts[a].subscription, attempts[a].attempt_number) :
             initiate_subscription_payment_accepted(a, r)
    \/ \E a \in 1..Len(attempts) :
          \E r \in Suffixes(attempts[a].subscription, attempts[a].attempt_number) :
             \E sent \in BOOLEAN : initiate_subscription_payment_raise(a, r, sent)
    \/ \E a \in 1..Len(attempts) :
          \E r \in Suffixes(attempts[a].subscription, attempts[a].attempt_number) :
             initiate_subscription_payment_no_provider(a, r)
    \/ cleanup_expired_intents
    \/ Tick

Spec == Init /\ [][Next]_vars

----------------------------------------------------------------------------
\* Webhook ingestion and the ledger.  payments/models.py declares the rows
\* and their uniqueness constraints and providers/mpesa.py parses a callback;
\* the processor and the recorder themselves are modelled from the design
\* (WebhookProcessor, LedgerRecorder).

\* webhook deliveries the model lets arrive
MaxDeliveries == 3
\* LedgerRecorder.Post calls made outside settlement
MaxPosts == 1

billingRest == <<now, sub, paymethod, schedule, attempts, enqueued, delivered,
                 renewal_result, dw, termApplied, notified>>

\* WebhookEvent.STATUS_CHOICES
WebhookEventStatus == {"pending", "processing", "processed", "failed", "ignored"}

\* LedgerEntry.ENTRY_TYPE_CHOICES and ACCOUNT_CHOICES
ENTRY_TYPE_CHOICES == {"debit", "credit"}
ACCOUNT_CHOICES == {"revenue", "liability", "expense", "asset"}

\* ResultCode of an STK callback: 0, or 1032 (request cancelled by user)
ResultCodes == {0, 1032}

\* CheckoutRequestID of a callback: that of a push that was sent, or one no
\* intent carries
CheckoutRequestIDs == 1..(Len(intents) + 1)

\* the Amount item of a successful callback: the amount pushed, or an amount
\* 50 cents higher
CallbackAmounts == {SeedPrice, SeedPrice + 50}

\* Body.stkCallback of the callbacks M-Pesa sends: CallbackMetadata.Item, a
\* list of items <<Name, Value, whether Value is written as a decimal number>>,
\* is present in a successful callback only
Callbacks ==
    {[MerchantRequestID |-> c, CheckoutRequestID |-> c,
      ResultCode |-> 0, ResultDesc |-> "Success",
      Item |-> {<<"Amount", a, TRUE>>, <<"MpesaReceiptNumber", c, TRUE>>}] :
        c \in CheckoutRequestIDs, a \in CallbackAmounts}
    \cup
    {[MerchantRequestID |-> c, CheckoutRequestID |-> c,
      ResultCode |-> 1032, ResultDesc |-> "Request cancelled by user",
      Item |-> {}] :
        c \in CheckoutRequestIDs}

\* the value of the item called name, 0 when the list has none
ItemValue(cb, name) ==
    IF \E it \in cb.Item : it[1] = name
    THEN (CHOOSE it \in cb.Item : it[1] = name)[2]
    ELSE 0

\* the key parse_callback stores an item under (lines 379-387)
item_key(name) ==
    CASE name = "Amount" -> "amount"
      [] name = "MpesaReceiptNumber" -> "receipt_number"
      [] name = "TransactionDate" -> "transaction_date"
      [] name = "PhoneNumber" -> "phone_number"

\* a parser that reads the metadata of every callback
metadata_read_always(cb) == TRUE

\* line 370: the metadata is read when result_code == 0
metadata_read(cb) == cb.ResultCode = 0

\* line 380: Decimal(str(value)) raises for a Value that is no decimal number
decimal_raises(cb) == \E it \in cb.Item : it[1] = "Amount" /\ ~it[3]

\* the keys of the dict built at lines 362-387
parsed_keys(cb) ==
    {"result_code", "result_desc", "merchant_request_id", "checkout_request_id", "success"}
    \cup (IF metadata_read(cb) THEN {item_key(it[1]) : it \in cb.Item} ELSE {})

\* the dict parse_callback returns, as its set of keys and the value under each
\* key (0 or "" under a key it lacks), amount being what Decimal() made of the
\* Amount item; an exception leaves success = False and the error (lines 391-396)
parsed_callback(cb, amount) ==
    IF metadata_read(cb) /\ decimal_raises(cb)
    THEN [keys |-> {"success", "error"}, success |-> FALSE,
          result_code |-> 0, result_desc |-> "",
          merchant_request_id |-> 0, checkout_request_id |-> 0,
          has_amount |-> FALSE, amount |-> 0, receipt_number |-> 0,
          transaction_date |-> 0, phone_number |-> 0]
    ELSE [keys |-> parsed_keys(cb), success |-> cb.ResultCode = 0,
          result_code |-> cb.ResultCode, result_desc |-> cb.ResultDesc,
          merchant_request_id |-> cb.MerchantRequestID,
          checkout_request_id |-> cb.CheckoutRequestID,
          has_amount |-> "amount" \in parsed_keys(cb),
          amount |-> IF "amount" \in parsed_keys(cb) THEN amount ELSE 0,
          receipt_number |-> IF metadata_read(cb)
                             THEN ItemValue(cb, "MpesaReceiptNumber") ELSE 0,
          transaction_date |-> IF metadata_read(cb)
                               THEN ItemValue(cb, "TransactionDate") ELSE 0,
          phone_number |-> IF metadata_read(cb) THEN ItemValue(cb, "PhoneNumber") ELSE 0]

\* parse_callback that reads the amount as a whole number of shillings
parse_callback_whole_shillings(cb) ==
    parsed_callback(cb, (ItemValue(cb, "Amount") \div CentsPerShilling) * CentsPerShilling)

\* MPesaProvider.parse_callback (mpesa.py 342-396): the metadata items are read
\* only when ResultCode is 0; Decimal(str(value)) keeps the amount exactly
parse_callback(cb) ==
    parsed_callback(cb, ItemValue(cb, "Amount"))

\* the dedup key of a delivery: an STK callback is the one answer to a push,
\* identified by its CheckoutRequestID
provider_event_id(cb) == cb.CheckoutRequestID

\* a store that never reports a provider_event_id as present
provider_event_id_never_taken(id) == FALSE

\* unique=True on WebhookEvent.provider_event_id (models.py 220)
provider_event_id_taken(id) == \E e \in 1..Len(events) : events[e].provider_event_id = id

\* unique=True on Payment.provider_transaction_id (models.py 182)
provider_transaction_id_taken(id) ==
    \E k \in 1..Len(payments) : payments[k].provider_transaction_id = id

\* the intent a callback refers to: the one that stored its CheckoutRequestID
\* (tasks.py 81), 0 when there is none
resolve_intent(ref) ==
    IF \E i \in 1..Len(intents) : intents[i].checkout_request_id = ref
    THEN CHOOSE i \in 1..Len(intents) : intents[i].checkout_request_id = ref
    ELSE 0

\* step (5): the parsed amount equals the intent amount exactly
amount_matches(parsed, i) == parsed.has_amount /\ parsed.amount = intents[i].amount

RECURSIVE entry_sum(_, _)
\* the sum of the amounts of the entries of one entry_type
entry_sum(es, type) ==
    IF es = <<>> THEN 0
    ELSE (IF Head(es).entry_type = type THEN Head(es).amount ELSE 0)
         + entry_sum(Tail(es), type)

\* a recorder that validates nothing
Unvalidated(es) == TRUE

\* LedgerRecorder.Post validates that the debits equal the credits
Balanced(es) == entry_sum(es, "debit") = entry_sum(es, "credit")

\* LedgerRecorder.Post(payment, entries): the ledger after the call; the
\* entries are appended when they balance, nothing is persisted otherwise
Post(p, es, by) ==
    IF Balanced(es)
    THEN ledger \o [k \in 1..Len(es) |-> [payment |-> p, source |-> by] @@ es[k]]
    ELSE ledger

\* the entries of a settled payment: cash received against revenue
settlement_entries(a) ==
    <<[entry_type |-> "debit", account_type |-> "asset", amount |-> a],
      [entry_type |-> "credit", account_type |-> "revenue", amount |-> a]>>

\* entry lists other callers hand to Post for a payment of amount a: a
\* balanced adjustment, a lone debit, a pair whose amounts differ
PostedEntries(a) ==
    {<<[entry_type |-> "debit", account_type |-> "expense", amount |-> a],
       [entry_type |-> "credit", account_type |-> "asset", amount |-> a]>>,
     <<[entry_type |-> "debit", account_type |-> "expense", amount |-> a]>>,
     <<[entry_type |-> "debit", account_type |-> "expense", amount |-> a],
       [entry_type |-> "credit", account_type |-> "asset", amount |-> a - 50]>>}

\* a delivery arrives; during names the deliveries that are still being
\* handled at that moment
webhook_receive(cb) ==
    /\ Len(handlers) < MaxDeliveries
    /\ handlers' = Append(handlers,
                      [payload |-> cb, pc |-> "insert", event |-> 0, intent |-> 0,
                       payment |-> 0, outcome |-> "pending", writes |-> 0,
                       during |-> {g \in 1..Len(handlers) :
                                     handlers[g].pc \notin {"done", "error"}}])
    /\ UNCHANGED <<intents, events, payments, ledger, settled, post_log>>
    /\ UNCHANGED <<billingRest, sideVars>>

\* step (1): the atomic insert-if-absent of provider_event_id; a delivery
\* whose id is stored is marked ignored and answered with success
webhook_insert_if_absent(h) ==
    /\ handlers[h].pc = "insert"
    /\ IF provider_event_id_taken(provider_event_id(handlers[h].payload))
       THEN /\ handlers' = [handlers EXCEPT ![h].pc = "done", ![h].outcome = "ignored"]
            /\ UNCHANGED events
       ELSE /\ events' = Append(events,
                            [provider_event_id |-> provider_event_id(handlers[h].payload),
                             status |-> "pending", error_message |-> "",
                             payment_intent |-> NoIntent, payment |-> 0])
            /\ handlers' = [handlers EXCEPT ![h].pc = "resolve",
                                            ![h].event = Len(events) + 1]
    /\ UNCHANGED <<intents, payments, ledger, settled, post_log>>
    /\ UNCHANGED <<billingRest, sideVars>>

\* steps (2)-(4): parse, resolve the intent by the correlation reference; no
\* intent: the event is failed with UnresolvedReference
webhook_resolve(h) ==
    /\ handlers[h].pc = "resolve"
    /\ LET i == resolve_intent(parse_callback(handlers[h].payload).checkout_request_id)
           e == handlers[h].event
       IN  IF i = 0
           THEN /\ events' = [events EXCEPT ![e].status = "failed",
                                            ![e].error_message = "UnresolvedReference"]
                /\ handlers' = [handlers EXCEPT ![h].pc = "done", ![h].outcome = "failed"]
           ELSE /\ events' = [events EXCEPT ![e].status = "processing",
                                            ![e].payment_intent = i]
                /\ handlers' = [handlers EXCEPT ![h].pc = "settle", ![h].intent = i]
    /\ UNCHANGED <<intents, payments, ledger, settled, post_log>>
    /\ UNCHANGED <<billingRest, sideVars>>

\* steps (5)-(6), the intent: a successful callback whose amount differs fails
\* the intent and the event with ValidationMismatch; a successful one whose
\* amount matches moves the intent to succeeded; a decline fails the intent and
\* the event is processed
webhook_settle(h) ==
    /\ handlers[h].pc = "settle"
    /\ LET parsed == parse_callback(handlers[h].payload)
           i == handlers[h].intent
           e == handlers[h].event
       IN  /\ settled' = [settled EXCEPT ![events[e].provider_event_id] = @ + 1]
           /\ IF parsed.success /\ ~amount_matches(parsed, i)
              THEN /\ intents' = [intents EXCEPT ![i].status = "failed",
                                                 ![i].error_message = "ValidationMismatch"]
                   /\ events' = [events EXCEPT ![e].status = "failed",
                                               ![e].error_message = "ValidationMismatch"]
                   /\ handlers' = [handlers EXCEPT ![h].pc = "done",
                                                   ![h].outcome = "failed",
                                                   ![h].writes = @ + 1]
              ELSE IF parsed.success
              THEN /\ intents' = [intents EXCEPT ![i].status = "succeeded"]
                   /\ handlers' = [handlers EXCEPT ![h].pc = "payment",
                                                   ![h].writes = @ + 1]
                   /\ UNCHANGED events
              ELSE /\ intents' = [intents EXCEPT ![i].status = "failed",
                                                 ![i].error_message = "ProviderRejected"]
                   /\ events' = [events EXCEPT ![e].status = "processed"]
                   /\ handlers' = [handlers EXCEPT ![h].pc = "done",
                                                   ![h].outcome = "processed",
                                                   ![h].writes = @ + 1]
    /\ UNCHANGED <<payments, ledger, post_log>>
    /\ UNCHANGED <<billingRest, sideVars>>

\* step (6), the Payment row: the INSERT is refused when a row carries the
\* receipt already (IntegrityError: the handler stops there)
webhook_create_payment(h) ==
    /\ handlers[h].pc = "payment"
    /\ LET parsed == parse_callback(handlers[h].payload)
           e == handlers[h].event
       IN  IF provider_transaction_id_taken(parsed.receipt_number)
           THEN /\ handlers' = [handlers EXCEPT ![h].pc = "error", ![h].outcome = "error"]
                /\ UNCHANGED <<payments, events>>
           ELSE /\ payments' = Append(payments,
                                  [payment_intent |-> handlers[h].intent,
                                   amount |-> parsed.amount,
                                   provider_transaction_id |-> parsed.receipt_number])
                /\ events' = [events EXCEPT ![e].payment = Len(payments) + 1]
                /\ handlers' = [handlers EXCEPT ![h].pc = "post",
                                                ![h].payment = Len(payments) + 1,
                                                ![h].writes = @ + 1]
    /\ UNCHANGED <<intents, ledger, settled, post_log>>
    /\ UNCHANGED <<billingRest, sideVars>>

\* step (6), the ledger: LedgerRecorder.Post of the payment's entries
webhook_post(h) ==
    /\ handlers[h].pc = "post"
    /\ ledger' = Post(handlers[h].payment,
                      settlement_entries(payments[handlers[h].payment].amount),
                      "settlement")
    /\ handlers' = [handlers EXCEPT ![h].pc = "mark", ![h].writes = @ + 1]
    /\ UNCHANGED <<intents, events, payments, settled, post_log>>
    /\ UNCHANGED <<billingRest, sideVars>>

\* step (6), the event: processed
webhook_mark_processed(h) ==
    /\ handlers[h].pc = "mark"
    /\ events' = [events EXCEPT ![handlers[h].event].status = "processed"]
    /\ handlers' = [handlers EXCEPT ![h].pc = "done", ![h].outcome = "processed"]
    /\ UNCHANGED <<intents, payments, ledger, settled, post_log>>
    /\ UNCHANGED <<billingRest, sideVars>>

\* LedgerRecorder.Post called for payment p by another component
ledger_post(p, es) ==
    /\ Len(post_log) < MaxPosts
    /\ ledger' = Post(p, es, "other")
    /\ post_log' = Append(post_log,
                      [payment |-> p, entries |-> es, persisted |-> Balanced(es)])
    /\ UNCHANGED <<intents, events, payments, handlers, settled>>
    /\ UNCHANGED <<billingRest, sideVars>>

\* the database when the callbacks arrive: every subscription has a renewal
\* attempt in processing whose intent awaits the user's confirmation of the
\* push (initiate_subscription_payment has run, tasks.py 64-84)
InitWebhook ==
    /\ now = 0
    /\ sub = [s \in Subs |-> SubscriptionRow("renewing")]
    /\ paymethod = [s \in Subs |-> "mpesa"]
    /\ schedule = [cancel_subscription |-> FALSE, downgrade_to_free |-> TRUE]
    /\ attempts = [i \in 1..Len(SubOrder) |->
                     [NewAttempt(SubOrder[i], 1, 0, 0, "first") EXCEPT
                         !.status = "processing", !.payment_intent = i, !.pushes = 1]]
    /\ intents = [i \in 1..Len(SubOrder) |->
                    [NewIntent(i, idempotency_key(SubOrder[i], 1, 1), "mpesa", 0) EXCEPT
                        !.status = "requires_action", !.checkout_request_id = i]]
    /\ enqueued = {}
    /\ delivered = [i \in 1..Len(SubOrder) |-> 1]
    /\ renewal_result = [renewed |-> 0, failed |-> 0, skipped |-> 0]
    /\ dw = [w \in DunningWorkers |-> IdleDunning]
    /\ termApplied = [s \in Subs |-> 0]
    /\ notified = <<>>
    /\ events = <<>>
    /\ payments = <<>>
    /\ ledger = <<>>
    /\ handlers = <<>>
    /\ settled = [c \in 1..(Len(SubOrder) + 1) |-> 0]
    /\ post_log = <<>>
    /\ NoReconcile
    /\ NoGateways
    /\ NoCallbacks
    /\ NoRequests
    /\ NoNotifications

NextWebhook ==
    \/ \E cb \in Callbacks : webhook_receive(cb)
    \/ \E h \in 1..Len(handlers) : webhook_insert_if_absent(h)
    \/ \E h \in 1..Len(handlers) : webhook_resolve(h)
    \/ \E h \in 1..Len(handlers) : webhook_settle(h)
    \/ \E h \in 1..Len(handlers) : webhook_create_payment(h)
    \/ \E h \in 1..Len(handlers) : webhook_post(h)
    \/ \E h \in 1..Len(handlers) : webhook_mark_processed(h)
    \/ \E p \in 1..Len(payments) :
          \E es \in PostedEntries(payments[p].amount) : ledger_post(p, es)

SpecWebhook == InitWebhook /\ [][NextWebhook]_vars

----------------------------------------------------------------------------
\* reconcile_daily_payments (payments/tasks.py 114-171)

\* Payment rows of the databases the job is run on
MaxPayments == 2
\* runs of the job
MaxReconcileRuns == 2
\* crontab(hour=2, minute=0): the job runs at 2 AM
ReconcileHour == 2

\* lines 123-125: yesterday.replace(hour=0, ...) and yesterday.replace(hour=23,
\* minute=59, ...), in hours: the first and the last hour of the day before t
start_of_yesterday(t) == ((t - HoursPerDay) \div HoursPerDay) * HoursPerDay
end_of_yesterday(t) == start_of_yesterday(t) + HoursPerDay - 1

\* the queryset without its upper limit
payments_since_yesterday(t) ==
    {k \in 1..Len(payments) : payments[k].created_at >= start_of_yesterday(t)}

\* lines 128-131: the payments created yesterday
payments_of_yesterday(t) ==
    {k \in 1..Len(payments) :
        /\ payments[k].created_at >= start_of_yesterday(t)
        /\ payments[k].created_at <= end_of_yesterday(t)}

\* a test that takes any linked event, processed or not
webhook_exists_any_status(k) ==
    \E e \in 1..Len(events) : events[e].payment = k

\* lines 145-148
webhook_exists(k) ==
    \E e \in 1..Len(events) : events[e].payment = k /\ events[e].status = "processed"

\* lines 137-154: the entries one payment adds to mismatches
payment_mismatches(k) ==
    (IF orders[payments[k].order].status # "paid" THEN 1 ELSE 0)
    + (IF ~webhook_exists(k) THEN 1 ELSE 0)

\* the same entries, as <<payment, issue>>
payment_issues(k) ==
    (IF orders[payments[k].order].status # "paid"
     THEN {<<k, "Order not marked as paid">>} ELSE {})
    \cup (IF ~webhook_exists(k) THEN {<<k, "No processed webhook event">>} ELSE {})

RECURSIVE count_mismatches(_)
\* len(mismatches) after the loop over the payments S
count_mismatches(S) ==
    IF S = {} THEN 0
    ELSE LET k == CHOOSE x \in S : TRUE
         IN  payment_mismatches(k) + count_mismatches(S \ {k})

\* lines 156-171: the alert, sent once when mismatches is not empty, and the
\* returned report
reconcile_report ==
    /\ reconcile_result.runs < MaxReconcileRuns
    /\ reconcile_result' =
          [runs |-> reconcile_result.runs + 1,
           total_payments |-> Cardinality(payments_of_yesterday(now)),
           mismatches |-> count_mismatches(payments_of_yesterday(now)),
           issues |-> UNION {payment_issues(k) : k \in payments_of_yesterday(now)}]
    /\ admin_alerts' = IF count_mismatches(payments_of_yesterday(now)) > 0
                       THEN admin_alerts + 1 ELSE admin_alerts
    /\ UNCHANGED <<now, sub, paymethod, schedule, attempts, enqueued, delivered,
                   renewal_result, dw, termApplied, notified,
                   handlers, settled, post_log, pending_push>>
    /\ UNCHANGED <<gatewayVars, callbackVars, requestVars, notificationVars>>

\* a job that marks the order of every payment of the window as paid
reconcile_daily_payments_repairing ==
    /\ reconcile_report
    /\ orders' = [o \in 1..Len(orders) |->
                    IF \E k \in payments_of_yesterday(now) : payments[k].order = o
                    THEN [orders[o] EXCEPT !.status = "paid"]
                    ELSE orders[o]]
    /\ UNCHANGED <<payments, events, intents, ledger>>

\* the job reads and writes no row
reconcile_daily_payments ==
    /\ reconcile_report
    /\ UNCHANGED <<payments, orders, events, intents, ledger>>

\* created_at of the payments: the last hour of the day before yesterday, the
\* first and the last hour of yesterday, the first hour of today
PaymentTimes == {HoursPerDay - 1, HoursPerDay, 2 * HoursPerDay - 1, 2 * HoursPerDay}

\* the webhook event of a payment: processed and linked to it, failed and
\* linked to it, or processed with no payment linked
EventKinds == {"processed", "failed", "unlinked"}

\* the databases the job is run on, at 2 AM of day 2: up to MaxPayments settled
\* payments, each with its order, its intent, its webhook event and its two
\* ledger entries
InitReconcile ==
    /\ now = 2 * HoursPerDay + ReconcileHour
    /\ \E n \in 0..MaxPayments :
          \E created \in [1..n -> PaymentTimes], paid \in [1..n -> BOOLEAN],
             kind \in [1..n -> EventKinds] :
             /\ payments = [k \in 1..n |->
                              [payment_intent |-> k, amount |-> SeedPrice,
                               provider_transaction_id |-> k, order |-> k,
                               created_at |-> created[k]]]
             /\ orders = [k \in 1..n |->
                            [status |-> IF paid[k] THEN "paid" ELSE "pending"]]
             /\ events = [k \in 1..n |->
                            [provider_event_id |-> k,
                             status |-> IF kind[k] = "failed" THEN "failed" ELSE "processed",
                             error_message |-> "",
                             payment_intent |-> k,
                             payment |-> IF kind[k] = "unlinked" THEN 0 ELSE k]]
             /\ intents = [k \in 1..n |->
                             [NewIntent(k, idempotency_key("s1", k, 1), "mpesa", created[k])
                                 EXCEPT !.status = "succeeded", !.checkout_request_id = k]]
             /\ ledger = [x \in 1..(2 * n) |->
                            [payment |-> (x + 1) \div 2, source |-> "settlement"]
                            @@ settlement_entries(SeedPrice)[((x - 1) % 2) + 1]]
    /\ sub = [s \in Subs |-> SubscriptionRow("renewing")]
    /\ paymethod = [s \in Subs |-> "mpesa"]
    /\ schedule = [cancel_subscription |-> FALSE, downgrade_to_free |-> TRUE]
    /\ attempts = <<>>
    /\ enqueued = {}
    /\ delivered = <<>>
    /\ renewal_result = [renewed |-> 0, failed |-> 0, skipped |-> 0]
    /\ dw = [w \in DunningWorkers |-> IdleDunning]
    /\ termApplied = [s \in Subs |-> 0]
    /\ notified = <<>>
    /\ handlers = <<>>
    /\ settled = <<>>
    /\ post_log = <<>>
    /\ reconcile_result = [runs |-> 0, total_payments |-> 0, mismatches |-> 0, issues |-> {}]
    /\ admin_alerts = 0
    /\ pending_push = {}
    /\ NoGateways
    /\ NoCallbacks
    /\ NoRequests
    /\ NoNotifications

NextReconcile == reconcile_daily_payments

SpecReconcile == InitReconcile /\ [][NextReconcile]_vars

----------------------------------------------------------------------------
\* The sweeps when a statement of an iteration raises.  The .delay calls of
\* process_dunning_schedule publish to the broker and raise when it cannot be
\* reached; the handler of line 172 logs and the loop goes on.

\* the sweep returns at the first error
process_dunning_schedule_abort(w, at) ==
    /\ dw[w].pc = "apply"
    /\ dw[w].retry
    /\ LET s == Head(dw[w].queue).id
       IN  /\ attempts' = Append(attempts,
                             NewAttempt(s, dw[w].number, now, dw[w].now, "dunning"))
           /\ delivered' = Append(delivered, 0)
           /\ enqueued' = IF at = "notify" THEN enqueued \cup {Len(attempts) + 1}
                          ELSE enqueued
    /\ dw' = [dw EXCEPT ![w] = IdleDunning]
    /\ UNCHANGED <<now, sub, paymethod, schedule, intents, renewal_result, termApplied,
                   notified>>
    /\ UNCHANGED <<webhookVars, sideVars>>

\* lines 140-156 and 172-173: the attempt is created (line 142) and
\* initiate_subscription_payment.delay (at = "enqueue") or
\* send_dunning_notification.delay (at = "notify") raises; the rest of the
\* iteration, the grace check included, is skipped and the loop continues
process_dunning_schedule_error(w, at) ==
    /\ dw[w].pc = "apply"
    /\ dw[w].retry
    /\ LET s == Head(dw[w].queue).id
       IN  /\ attempts' = Append(attempts,
                             NewAttempt(s, dw[w].number, now, dw[w].now, "dunning"))
           /\ delivered' = Append(delivered, 0)
           /\ enqueued' = IF at = "notify" THEN enqueued \cup {Len(attempts) + 1}
                          ELSE enqueued
    /\ dw' = [dw EXCEPT ![w] = NextIteration(w)]
    /\ UNCHANGED <<now, sub, paymethod, schedule, intents, renewal_result, termApplied,
                   notified>>
    /\ UNCHANGED <<webhookVars, sideVars>>

\* the profiles the subscriptions are drawn from: due for renewal, or past_due
\* after a failed renewal
SweepProfiles == {"due", "dunning", "dunning_grace"}

InitSweeps ==
    /\ now = 0
    /\ \E profile \in [Subs -> SweepProfiles] :
          /\ sub = [s \in Subs |-> SubscriptionRow(profile[s])]
          /\ attempts = FirstAttempts(profile)
          /\ delivered = [i \in 1..Len(FirstAttempts(profile)) |-> 0]
    /\ enqueued = {}
    /\ paymethod = [s \in Subs |-> "mpesa"]
    /\ schedule \in ScheduleChoices
    /\ intents = <<>>
    /\ renewal_result = [renewed |-> 0, failed |-> 0, skipped |-> 0]
    /\ dw = [w \in DunningWorkers |-> IdleDunning]
    /\ termApplied = [s \in Subs |-> 0]
    /\ notified = <<>>
    /\ NoWebhooks
    /\ NoReconcile
    /\ NoGateways
    /\ NoCallbacks
    /\ NoRequests
    /\ NoNotifications

NextSweeps ==
    \/ process_subscription_renewals
    \/ \E w \in DunningWorkers : process_dunning_schedule_begin(w)
    \/ \E w \in DunningWorkers : process_dunning_schedule_decide(w)
    \/ \E w \in DunningWorkers : process_dunning_schedule_apply(w)
    \/ \E w \in DunningWorkers :
          \E at \in {"enqueue", "notify"} : process_dunning_schedule_error(w, at)
    \/ Tick

SpecSweeps == InitSweeps /\ [][NextSweeps]_vars

----------------------------------------------------------------------------
\* initiate_subscription_payment statement by statement.  Between the INSERT
\* of the intent (line 51) and payment_intent.save() (lines 84, 97) the task
\* waits for the provider; nothing in the code ties the length of that wait to
\* expires_at, and save() writes every field of the object the task holds.

\* lines 27-66: the intent is created and the attempt saved as processing; the
\* task goes on to call the provider, holding the PaymentIntent object
initiate_subscription_payment_begin(a, r) ==
    /\ CanCreate(a, r)
    /\ paymethod[attempts[a].subscription] \in {"mpesa", "airtel"}
    /\ intents' = Append(intents, created_intent(a, r))
    /\ attempts' = [attempts EXCEPT ![a].payment_intent = Len(intents) + 1,
                                    ![a].status = "processing"]
    /\ delivered' = [delivered EXCEPT ![a] = @ + 1]
    /\ pending_push' = pending_push \cup
                          {[attempt |-> a, intent |-> Len(intents) + 1,
                            object |-> created_intent(a, r)]}
    /\ UNCHANGED <<now, sub, paymethod, schedule, enqueued, renewal_result, dw,
                   termApplied, notified>>
    /\ UNCHANGED <<webhookVars, reconVars, gatewayVars, callbackVars, requestVars, notificationVars>>

\* the row save() writes: the object the task holds with the response id and
\* requires_action (lines 81-84, 95-97); cancels is no column
saved_intent(run) ==
    [(IF run.object.provider = "mpesa"
      THEN [run.object EXCEPT !.checkout_request_id = run.intent,
                              !.status = "requires_action"]
      ELSE [run.object EXCEPT !.provider_transaction_id = run.intent,
                              !.status = "requires_action"])
     EXCEPT !.cancels = intents[run.intent].cancels]

\* lines 73-97: the provider accepted the push and the intent is saved
initiate_subscription_payment_response(run) ==
    /\ run \in pending_push
    /\ intents' = [intents EXCEPT ![run.intent] = saved_intent(run)]
    /\ attempts' = [attempts EXCEPT ![run.attempt].pushes = @ + 1]
    /\ pending_push' = pending_push \ {run}
    /\ UNCHANGED <<now, sub, paymethod, schedule, enqueued, delivered, renewal_result, dw,
                   termApplied, notified>>
    /\ UNCHANGED <<webhookVars, reconVars, gatewayVars, callbackVars, requestVars, notificationVars>>

\* a run that asks for the token again after a failed request instead of
\* ending: the attempt stays processing and the run goes on waiting
initiate_subscription_payment_failure_retried(run, sent) ==
    /\ run \in pending_push
    /\ attempts' = [attempts EXCEPT ![run.attempt].error_message =
                                        IF sent THEN "push failed"
                                        ELSE "authentication failed",
                                    ![run.attempt].status =
                                        IF sent THEN "failed" ELSE @,
                                    ![run.attempt].pushes = IF sent THEN @ + 1 ELSE @]
    /\ pending_push' = IF sent THEN pending_push \ {run} ELSE pending_push
    /\ UNCHANGED <<now, sub, paymethod, schedule, intents, enqueued, delivered,
                   renewal_result, dw, termApplied, notified>>
    /\ UNCHANGED <<webhookVars, reconVars, gatewayVars, callbackVars, requestVars, notificationVars>>

\* lines 73-79, 88-93 and 101-110: the token request (sent = FALSE) or the push
\* request (sent = TRUE) raises; the attempt is fetched again, marked failed,
\* and the exception re-raised
initiate_subscription_payment_failure(run, sent) ==
    /\ run \in pending_push
    /\ attempts' = [attempts EXCEPT ![run.attempt].status = "failed",
                                    ![run.attempt].error_message =
                                        IF sent THEN "push failed"
                                        ELSE "authentication failed",
                                    ![run.attempt].pushes = IF sent THEN @ + 1 ELSE @]
    /\ pending_push' = pending_push \ {run}
    /\ UNCHANGED <<now, sub, paymethod, schedule, intents, enqueued, delivered,
                   renewal_result, dw, termApplied, notified>>
    /\ UNCHANGED <<webhookVars, reconVars, gatewayVars, callbackVars, requestVars, notificationVars>>

\* every subscription is active with a renewal attempt whose payment task is
\* enqueued; the user pays by M-Pesa or by Airtel
InitIntents ==
    /\ now = 0
    /\ sub = [s \in Subs |-> SubscriptionRow("renewing")]
    /\ attempts = FirstAttempts([s \in Subs |-> "renewing"])
    /\ delivered = [i \in 1..Len(SubOrder) |-> 0]
    /\ enqueued = 1..Len(SubOrder)
    /\ \E m \in {"mpesa", "airtel"} : paymethod = [s \in Subs |-> m]
    /\ schedule = [cancel_subscription |-> FALSE, downgrade_to_free |-> TRUE]
    /\ intents = <<>>
    /\ renewal_result = [renewed |-> 0, failed |-> 0, skipped |-> 0]
    /\ dw = [w \in DunningWorkers |-> IdleDunning]
    /\ termApplied = [s \in Subs |-> 0]
    /\ notified = <<>>
    /\ NoWebhooks
    /\ NoReconcile
    /\ NoGateways
    /\ NoCallbacks
    /\ NoRequests
    /\ NoNotifications

NextIntents ==
    \/ \E a \in 1..Len(attempts) :
          \E r \in Suffixes(attempts[a].subscription, attempts[a].attempt_number) :
             initiate_subscription_payment_begin(a, r)
    \/ \E run \in pending_push : initiate_subscription_payment_response(run)
    \/ \E run \in pending_push :
          \E sent \in BOOLEAN : initiate_subscription_payment_failure(run, sent)
    \/ cleanup_expired_intents
    \/ Tick

SpecIntents == InitIntents /\ [][NextIntents]_vars

----------------------------------------------------------------------------
\* The OAuth token cache of the gateways (payments/providers/mpesa.py 57-91,
\* payments/providers/airtel.py 50-93).  A provider object keeps the token and
\* the time until which it trusts it; the clock of this part is in seconds.

\* seconds the clock advances in one step
ClockStep == 300

\* the last clock value visited
MaxClock == 3600

\* number of tokens the providers issue
MaxTokens == 2

\* timedelta(minutes=55): the time an M-Pesa token is kept
MpesaCacheMinutes == 55

SecondsPerMinute == 60

\* data.get('expires_in', 3600), and the lifetime of an M-Pesa token
DefaultExpiresIn == 3600

\* expires_in - 300
TokenMargin == 300

\* an expires_in shorter than the default
ShortExpiresIn == 600

\* what the token endpoint can answer: an HTTP or transport error
\* (RequestException), a body without access_token, or a token; Airtel's body
\* may carry expires_in, M-Pesa's lifetime is one hour
OAuthResponses(g) ==
    {[outcome |-> o, has_expires_in |-> FALSE, expires_in |-> 0] : o \in {"error", "malformed"}}
    \cup {[outcome |-> "ok", has_expires_in |-> TRUE, expires_in |-> DefaultExpiresIn]}
    \cup (IF provider_class(g) = "airtel"
          THEN {[outcome |-> "ok", has_expires_in |-> TRUE, expires_in |-> ShortExpiresIn],
                [outcome |-> "ok", has_expires_in |-> FALSE, expires_in |-> 0]}
          ELSE {})

\* seconds after which the provider stops accepting the token it issued
token_lifetime(resp) ==
    IF resp.has_expires_in THEN resp.expires_in ELSE DefaultExpiresIn

\* seconds the object trusts the token: mpesa.py line 84, airtel.py lines 83-84
cache_period(g, resp) ==
    IF provider_class(g) = "mpesa"
    THEN MpesaCacheMinutes * SecondsPerMinute
    ELSE (IF resp.has_expires_in THEN resp.expires_in ELSE DefaultExpiresIn) - TokenMargin

\* a cache test that ignores the expiry
cached_token_any_age(g) ==
    gateways[g]._access_token # NoToken

\* the test of mpesa.py 63-64 and airtel.py 56-57
cached_token_valid(g) ==
    /\ gateways[g]._access_token # NoToken
    /\ gateways[g]._token_expiry # NoTime
    /\ clock < gateways[g]._token_expiry

\* mpesa.py 63-65, airtel.py 56-58: the cached token is returned
get_access_token_cached(g) ==
    /\ cached_token_valid(g)
    /\ last_call' = [gateway |-> g, contacted |-> FALSE,
                     returned |-> gateways[g]._access_token, raised |-> "none"]
    /\ UNCHANGED <<gateways, clock, oauth_tokens>>

\* mpesa.py 67-91, airtel.py 60-93: the token endpoint is called
get_access_token_request(g, resp) ==
    /\ ~cached_token_valid(g)
    /\ CASE resp.outcome = "ok" ->
              /\ Len(oauth_tokens) < MaxTokens
              /\ oauth_tokens' = Append(oauth_tokens,
                                        [issued_to |-> g,
                                         expires_at |-> clock + token_lifetime(resp)])
              /\ gateways' = [gateways EXCEPT ![g] =
                                 [_access_token |-> Len(oauth_tokens) + 1,
                                  _token_expiry |-> clock + cache_period(g, resp)]]
              /\ last_call' = [gateway |-> g, contacted |-> TRUE,
                               returned |-> Len(oauth_tokens) + 1, raised |-> "none"]
         [] resp.outcome = "error" ->
              /\ last_call' = [gateway |-> g, contacted |-> TRUE,
                               returned |-> NoToken, raised |-> "authentication failed"]
              /\ UNCHANGED <<gateways, oauth_tokens>>
         [] resp.outcome = "malformed" ->
              /\ last_call' = [gateway |-> g, contacted |-> TRUE,
                               returned |-> NoToken, raised |-> "KeyError"]
              /\ UNCHANGED <<gateways, oauth_tokens>>
    /\ UNCHANGED clock

get_access_token(g, resp) ==
    /\ \/ get_access_token_cached(g)
       \/ get_access_token_request(g, resp)
    /\ UNCHANGED <<billingVars, webhookVars, reconVars, pending_push, callbackVars, requestVars, notificationVars>>

\* time passes; the caller has used what the latest call returned
ClockTick ==
    /\ clock + ClockStep <= MaxClock
    /\ clock' = clock + ClockStep
    /\ last_call' = NoCall
    /\ UNCHANGED <<gateways, oauth_tokens>>
    /\ UNCHANGED <<billingVars, webhookVars, reconVars, pending_push, callbackVars, requestVars, notificationVars>>

\* no subscription is due and no task is queued
QuietBilling ==
    /\ now = 0
    /\ sub = [s \in Subs |-> SubscriptionRow("renewing")]
    /\ paymethod = [s \in Subs |-> "mpesa"]
    /\ schedule = [cancel_subscription |-> FALSE, downgrade_to_free |-> TRUE]
    /\ attempts = <<>>
    /\ intents = <<>>
    /\ enqueued = {}
    /\ delivered = <<>>
    /\ renewal_result = [renewed |-> 0, failed |-> 0, skipped |-> 0]
    /\ dw = [w \in DunningWorkers |-> IdleDunning]
    /\ termApplied = [s \in Subs |-> 0]
    /\ notified = <<>>

InitGateways ==
    /\ QuietBilling
    /\ NoWebhooks
    /\ NoReconcile
    /\ NoGateways
    /\ NoCallbacks
    /\ NoRequests
    /\ NoNotifications

NextGateways ==
    \/ \E g \in Gateways : \E resp \in OAuthResponses(g) : get_access_token(g, resp)
    \/ ClockTick

SpecGateways == InitGateways /\ [][NextGateways]_vars

----------------------------------------------------------------------------
\* Callback parsing (payments/providers/mpesa.py 342-396,
\* payments/providers/airtel.py 242-287).  Both parsers are static functions of
\* the posted JSON body; a body is posted and the parser of its provider
\* applied to it.

\* number of different request and transaction ids in the payloads
MaxRequestIDs == 2

RequestIDs == 1..MaxRequestIDs

ResultDescs == {"Success", "Request cancelled by user"}

\* CallbackMetadata.Item of a posted body: any of the four items; the Amount
\* value is a number or a text that is no number
ItemLists ==
    {amt \cup rest :
        amt \in {{}, {<<"Amount", SeedPrice, TRUE>>}, {<<"Amount", 0, FALSE>>}},
        rest \in SUBSET {<<"MpesaReceiptNumber", 7, TRUE>>,
                         <<"TransactionDate", 1215, TRUE>>,
                         <<"PhoneNumber", 712, TRUE>>}}

\* Body.stkCallback of the bodies that can be posted to the M-Pesa endpoint
MpesaCallbacks ==
    {[MerchantRequestID |-> m, CheckoutRequestID |-> c,
      ResultCode |-> rc, ResultDesc |-> d, Item |-> items] :
        m \in RequestIDs, c \in RequestIDs, rc \in ResultCodes, d \in ResultDescs,
        items \in ItemLists}

\* transaction.status values: successful, failed, in progress
AirtelStatuses == {"TS", "SUCCESS", "TF", "TIP"}

\* the bodies that can be posted to the Airtel endpoint: transaction with id,
\* airtel_money_id and status, with or without amount (<<value, whether it is
\* written as a decimal number>>) and currency; subscriber absent, empty, or
\* with its msisdn and country
AirtelCallbacks ==
    {[id |-> i, airtel_money_id |-> i, status |-> st, fields |-> f, amount |-> a,
      currency |-> "KES", has_subscriber |-> sb[1], subscriber |-> sb[2]] :
        i \in RequestIDs, st \in AirtelStatuses, f \in SUBSET {"amount", "currency"},
        a \in {<<SeedPrice, TRUE>>, <<0, FALSE>>},
        sb \in {<<FALSE, {}>>, <<TRUE, {}>>,
                <<TRUE, {<<"country", 254>>}>>,
                <<TRUE, {<<"msisdn", 712>>, <<"country", 254>>}>>}}

\* subscriber.get(key): the value, 0 for None
subscriber_get(cb, key) ==
    IF \E kv \in cb.subscriber : kv[1] = key
    THEN (CHOOSE kv \in cb.subscriber : kv[1] = key)[2]
    ELSE 0

\* a parser that takes TS alone for a success
success_statuses_ts_only == {"TS"}

\* airtel.py line 264: status in ['TS', 'SUCCESS']
success_statuses == {"TS", "SUCCESS"}

\* the keys of the dict built at airtel.py lines 261-279
airtel_parsed_keys(cb) ==
    {"status", "transaction_id", "airtel_money_id", "success"}
    \cup (cb.fields \cap {"amount", "currency"})
    \cup (IF cb.subscriber # {} THEN {"phone_number", "country"} ELSE {})

\* AirtelProvider.parse_callback (airtel.py 242-287), as the set of keys of the
\* dict and the value under each key (0 or "" under a key it lacks);
\* Decimal(str(amount)) raises for an amount that is no number, and the
\* exception leaves success = False and the error
airtel_parse_callback(cb) ==
    IF "amount" \in cb.fields /\ ~cb.amount[2]
    THEN [keys |-> {"success", "error"}, success |-> FALSE,
          status |-> "", transaction_id |-> 0, airtel_money_id |-> 0,
          amount |-> 0, currency |-> "", phone_number |-> 0, country |-> 0]
    ELSE [keys |-> airtel_parsed_keys(cb), success |-> cb.status \in success_statuses,
          status |-> cb.status, transaction_id |-> cb.id,
          airtel_money_id |-> cb.airtel_money_id,
          amount |-> IF "amount" \in cb.fields THEN cb.amount[1] ELSE 0,
          currency |-> IF "currency" \in cb.fields THEN cb.currency ELSE "",
          phone_number |-> subscriber_get(cb, "msisdn"),
          country |-> subscriber_get(cb, "country")]

\* the M-Pesa parser is applied to the posted body
MPesaProvider_parse_callback ==
    /\ callback.provider = "mpesa"
    /\ callback_data.provider = "none"
    /\ callback_data' = [provider |-> "mpesa", parsed |-> parse_callback(callback.payload)]
    /\ UNCHANGED <<callback, billingVars, webhookVars, reconVars, pending_push, gatewayVars, requestVars, notificationVars>>

\* the Airtel parser is applied to the posted body
AirtelProvider_parse_callback ==
    /\ callback.provider = "airtel"
    /\ callback_data.provider = "none"
    /\ callback_data' = [provider |-> "airtel",
                         parsed |-> airtel_parse_callback(callback.payload)]
    /\ UNCHANGED <<callback, billingVars, webhookVars, reconVars, pending_push, gatewayVars, requestVars, notificationVars>>

InitCallbacks ==
    /\ QuietBilling
    /\ NoWebhooks
    /\ NoReconcile
    /\ NoGateways
    /\ \/ \E cb \in MpesaCallbacks : callback = [provider |-> "mpesa", payload |-> cb]
       \/ \E cb \in AirtelCallbacks : callback = [provider |-> "airtel", payload |-> cb]
    /\ callback_data = [provider |-> "none"]
    /\ NoRequests
    /\ NoNotifications

NextCallbacks ==
    \/ MPesaProvider_parse_callback
    \/ AirtelProvider_parse_callback

SpecCallbacks == InitCallbacks /\ [][NextCallbacks]_vars

----------------------------------------------------------------------------
\* The phone number in the outbound payment request
\* (payments/providers/mpesa.py 121-125 and 139-143,
\* payments/providers/airtel.py 110-114 and 123-129).  A number is the sequence
\* of its characters.

\* digits of the subscriber number after the country code
NationalLen == 3

Digits == {"0", "1", "2", "4", "5", "7"}

\* Kenya's country code
CountryCode == <<"2", "5", "4">>

\* subscriber numbers: mobile numbers start with 7 or 1
NationalNumbers == {n \in [1..NationalLen -> Digits] : n[1] \in {"7", "1"}}

\* the three ways the same number is written
written(form, n) ==
    CASE form = "local" -> <<"0">> \o n
      [] form = "plus" -> <<"+">> \o CountryCode \o n
      [] form = "international" -> CountryCode \o n

\* str.startswith
startswith(str, prefix) ==
    /\ Len(str) >= Len(prefix)
    /\ SubSeq(str, 1, Len(prefix)) = prefix

\* str[k:]
from_index(str, k) == SubSeq(str, k + 1, Len(str))

\* a normalization that rewrites the local form only
mpesa_phone_number_local_only(phone_number) ==
    IF startswith(phone_number, <<"0">>)
    THEN CountryCode \o from_index(phone_number, 1)
    ELSE phone_number

\* mpesa.py 121-125
mpesa_phone_number(phone_number) ==
    IF startswith(phone_number, <<"0">>)
    THEN CountryCode \o from_index(phone_number, 1)
    ELSE IF startswith(phone_number, <<"+">>)
         THEN from_index(phone_number, 1)
         ELSE phone_number

\* airtel.py 110-114
airtel_phone_number(phone_number) ==
    IF startswith(phone_number, CountryCode)
    THEN <<"0">> \o from_index(phone_number, 3)
    ELSE IF startswith(phone_number, <<"+">> \o CountryCode)
         THEN <<"0">> \o from_index(phone_number, 4)
         ELSE phone_number

\* order.total of the orders paid for: 5000.00, 4999.50 and 5000.01, in cents
\* (commerce/models.py 137: max_digits=10, decimal_places=2)
OrderTotals == {SeedPrice, SeedPrice - (CentsPerShilling \div 2), SeedPrice + 1}

\* mpesa.py 128, int(Decimal(str(amount))): the whole shillings of the amount,
\* the fraction cut off; as the provider reads it, in cents
mpesa_amount(amount) == (amount \div CentsPerShilling) * CentsPerShilling

\* float(amount) written into the JSON body: the shortest decimal numeral that
\* gives the same double, <<digits, number of decimals>>.  A double holds 15
\* significant digits and an amount has 10 at most, so the numeral is the
\* amount without its trailing zeros.
float_repr(amount) ==
    IF amount % CentsPerShilling = 0 THEN <<amount \div CentsPerShilling, 0>>
    ELSE IF amount % 10 = 0 THEN <<amount \div 10, 1>>
         ELSE <<amount, 2>>

\* the value of a numeral, in cents
numeral_value(n) ==
    CASE n[2] = 0 -> n[1] * CentsPerShilling
      [] n[2] = 1 -> n[1] * 10
      [] n[2] = 2 -> n[1]

\* airtel.py 131, 'amount': float(amount), as the provider reads it, in cents
airtel_amount(amount) == numeral_value(float_repr(amount))

\* mpesa.py 104-167: the STK push request carries the number as PartyA and
\* PhoneNumber, and the amount as Amount
initiate_stk_push ==
    /\ payer.form # "none"
    /\ ~\E r \in requests : r.provider = "mpesa"
    /\ \E amount \in OrderTotals :
          requests' = requests \cup
                         {[provider |-> "mpesa", msisdn |-> mpesa_phone_number(payer.text),
                           amount |-> amount, Amount |-> mpesa_amount(amount)]}
    /\ UNCHANGED <<payer, billingVars, webhookVars, reconVars, pending_push,
                   gatewayVars, callbackVars, notificationVars>>

\* airtel.py 95-156: the collect request carries the number as subscriber.msisdn
\* and the amount as transaction.amount
initiate_collect ==
    /\ payer.form # "none"
    /\ ~\E r \in requests : r.provider = "airtel"
    /\ \E amount \in OrderTotals :
          requests' = requests \cup
                         {[provider |-> "airtel", msisdn |-> airtel_phone_number(payer.text),
                           amount |-> amount, Amount |-> airtel_amount(amount)]}
    /\ UNCHANGED <<payer, billingVars, webhookVars, reconVars, pending_push,
                   gatewayVars, callbackVars, notificationVars>>

\* the payer's PaymentMethod holds one number in one of the three forms
InitRequests ==
    /\ QuietBilling
    /\ NoWebhooks
    /\ NoReconcile
    /\ NoGateways
    /\ NoCallbacks
    /\ \E f \in {"local", "plus", "international"} : \E n \in NationalNumbers :
          payer = [form |-> f, national |-> n, text |-> written(f, n)]
    /\ requests = {}
    /\ NoNotifications

NextRequests ==
    \/ initiate_stk_push
    \/ initiate_collect

SpecRequests == InitRequests /\ [][NextRequests]_vars

----------------------------------------------------------------------------
\* The dunning sweep over several days.  The same sweep and payment task, with
\* the clock read once a day: the sweep of that hour may run or not, and the
\* retries it creates fail, the user having no payment method.

\* the last day visited
MaxDays == 3

\* a day passes
DayTick ==
    /\ AllIdle
    /\ now + HoursPerDay <= MaxDays * HoursPerDay
    /\ now' = now + HoursPerDay
    /\ UNCHANGED <<sub, paymethod, schedule, attempts, intents, enqueued, delivered,
                   renewal_result, dw, termApplied, notified>>
    /\ UNCHANGED <<webhookVars, sideVars>>

\* the values the two action fields of a DunningSchedule row can hold
\* (subscriptions/models.py 151-153)
ScheduleConfigurations == [cancel_subscription : BOOLEAN, downgrade_to_free : BOOLEAN]

\* s1 is past_due since its renewal failed at hour 0, with or without a
\* grace_until; s2 is active
InitDays ==
    /\ now = 0
    /\ \E p \in {"dunning", "dunning_grace"} :
          /\ sub = [s \in Subs |-> SubscriptionRow(IF s = "s1" THEN p ELSE "due")]
          /\ attempts = FirstAttempts([s \in Subs |-> IF s = "s1" THEN p ELSE "due"])
    /\ delivered = <<0>>
    /\ enqueued = {}
    /\ paymethod = [s \in Subs |-> "none"]
    /\ schedule \in ScheduleConfigurations
    /\ intents = <<>>
    /\ renewal_result = [renewed |-> 0, failed |-> 0, skipped |-> 0]
    /\ dw = [w \in DunningWorkers |-> IdleDunning]
    /\ termApplied = [s \in Subs |-> 0]
    /\ notified = <<>>
    /\ NoWebhooks
    /\ NoReconcile
    /\ NoGateways
    /\ NoCallbacks
    /\ NoRequests
    /\ NoNotifications

NextDays ==
    \/ \E w \in DunningWorkers : process_dunning_schedule_begin(w)
    \/ \E w \in DunningWorkers : process_dunning_schedule_decide(w)
    \/ \E w \in DunningWorkers : process_dunning_schedule_apply(w)
    \/ \E a \in 1..Len(attempts) : initiate_subscription_payment_no_method(a)
    \/ DayTick

SpecDays == InitDays /\ [][NextDays]_vars

----------------------------------------------------------------------------
\* The dunning sweep under its schedule.  Celery beat starts the sweep again
\* and again (lms_config/celery.py 27-30) and a worker runs every task it is
\* handed to its end, so no step that stays possible is put off for ever.  The
\* clock starts on day 1, after the grace_until of a subscription that has one.

\* s1 is active with its renewal payment enqueued, or past_due with a
\* grace_until that has passed; the user has no payment method
InitGrace ==
    /\ now = HoursPerDay
    /\ \E p \in {"renewing", "dunning_grace"} :
          /\ sub = [s \in Subs |-> SubscriptionRow(IF s = "s1" THEN p ELSE "due")]
          /\ attempts = FirstAttempts([s \in Subs |-> IF s = "s1" THEN p ELSE "due"])
          /\ enqueued = IF p = "renewing" THEN {1} ELSE {}
    /\ delivered = <<0>>
    /\ paymethod = [s \in Subs |-> "none"]
    /\ schedule \in ScheduleChoices
    /\ intents = <<>>
    /\ renewal_result = [renewed |-> 0, failed |-> 0, skipped |-> 0]
    /\ dw = [w \in DunningWorkers |-> IdleDunning]
    /\ termApplied = [s \in Subs |-> 0]
    /\ notified = <<>>
    /\ NoWebhooks
    /\ NoReconcile
    /\ NoGateways
    /\ NoCallbacks
    /\ NoRequests
    /\ NoNotifications

FairSweeps ==
    /\ WF_vars(\E w \in DunningWorkers : process_dunning_schedule_begin(w))
    /\ WF_vars(\E w \in DunningWorkers : process_dunning_schedule_decide(w))
    /\ WF_vars(\E w \in DunningWorkers : process_dunning_schedule_apply(w))
    /\ WF_vars(\E a \in 1..Len(attempts) : initiate_subscription_payment_no_method(a))
    /\ WF_vars(DayTick)

SpecGrace == InitGrace /\ [][NextDays]_vars /\ FairSweeps

----------------------------------------------------------------------------
\* The provider's answer to the push.  Both adapters return the JSON body of
\* any 2xx answer (mpesa.py 157-161, airtel.py 146-150) and the task reads the
\* reference out of it with .get (payments/tasks.py 81, 95): the body carries
\* the reference or it does not.

\* lines 81-84 and 95-97 for a body without the reference.  M-Pesa:
\* response.get('CheckoutRequestID') is None, save() writes NULL into a column
\* that is not nullable (models.py 144) and raises, the row stays as it was and
\* the handler of line 101 marks the attempt failed.  Airtel:
\* response.get('data', {}).get('id', '') is '' and the intent is saved as
\* requires_action with that.
initiate_subscription_payment_response_without_id(run) ==
    /\ run \in pending_push
    /\ IF run.object.provider = "mpesa"
       THEN /\ attempts' = [attempts EXCEPT ![run.attempt].status = "failed",
                                            ![run.attempt].error_message =
                                                "NOT NULL constraint failed",
                                            ![run.attempt].pushes = @ + 1]
            /\ UNCHANGED intents
       ELSE /\ intents' = [intents EXCEPT ![run.intent] =
                             [run.object EXCEPT !.status = "requires_action",
                                                !.cancels = intents[run.intent].cancels]]
            /\ attempts' = [attempts EXCEPT ![run.attempt].pushes = @ + 1]
    /\ pending_push' = pending_push \ {run}
    /\ UNCHANGED <<now, sub, paymethod, schedule, enqueued, delivered, renewal_result, dw,
                   termApplied, notified>>
    /\ UNCHANGED <<webhookVars, reconVars, gatewayVars, callbackVars, requestVars, notificationVars>>

\* every subscription is active with a renewal attempt whose payment task is
\* enqueued; the user's default method is of any of the method types
InitPush ==
    /\ now = 0
    /\ sub = [s \in Subs |-> SubscriptionRow("renewing")]
    /\ attempts = FirstAttempts([s \in Subs |-> "renewing"])
    /\ delivered = [i \in 1..Len(SubOrder) |-> 0]
    /\ enqueued = 1..Len(SubOrder)
    /\ \E m \in METHOD_TYPE_CHOICES : paymethod = [s \in Subs |-> m]
    /\ schedule = [cancel_subscription |-> FALSE, downgrade_to_free |-> TRUE]
    /\ intents = <<>>
    /\ renewal_result = [renewed |-> 0, failed |-> 0, skipped |-> 0]
    /\ dw = [w \in DunningWorkers |-> IdleDunning]
    /\ termApplied = [s \in Subs |-> 0]
    /\ notified = <<>>
    /\ NoWebhooks
    /\ NoReconcile
    /\ NoGateways
    /\ NoCallbacks
    /\ NoRequests
    /\ NoNotifications

NextPush ==
    \/ \E a \in 1..Len(attempts) :
          \E r \in Suffixes(attempts[a].subscription, attempts[a].attempt_number) :
             initiate_subscription_payment_begin(a, r)
    \/ \E a \in 1..Len(attempts) :
          \E r \in Suffixes(attempts[a].subscription, attempts[a].attempt_number) :
             initiate_subscription_payment_no_provider(a, r)
    \/ \E run \in pending_push : initiate_subscription_payment_response(run)
    \/ \E run \in pending_push : initiate_subscription_payment_response_without_id(run)
    \/ \E run \in pending_push :
          \E sent \in BOOLEAN : initiate_subscription_payment_failure(run, sent)
    \/ cleanup_expired_intents
    \/ Tick

SpecPush == InitPush /\ [][NextPush]_vars

----------------------------------------------------------------------------
\* The expiry sweep over intents in every status.  s1 has a renewal attempt
\* whose payment task is enqueued; s2 has an attempt whose intent was created
\* at hour 0 or hour 5 and has since been left alone, answered by the provider,
\* or settled by a callback; the attempt is processing, as the payment task
\* left it (payments/tasks.py 64-66).

\* expires_at of the intent of s2, created at hour 0 or at hour 5
EarlierExpiries == {IntentTTLHours, SweepIntervalHours}

InitCleanup ==
    /\ now = 0
    /\ sub = [s \in Subs |-> SubscriptionRow("renewing")]
    /\ \E m \in {"mpesa", "airtel"} : \E st \in IntentStatus : \E exp \in EarlierExpiries :
          /\ paymethod = [s \in Subs |-> m]
          /\ intents =
                <<[NewIntent(2, idempotency_key("s2", 1, 1), m, exp - IntentTTLHours) EXCEPT
                      !.status = st,
                      !.checkout_request_id = IF m = "mpesa" /\ st # "created" THEN 1 ELSE 0,
                      !.provider_transaction_id =
                          IF m = "airtel" /\ st # "created" THEN 1 ELSE 0]>>
          /\ attempts =
                <<NewAttempt("s1", 1, 0, 0, "first"),
                  [NewAttempt("s2", 1, 0, 0, "first") EXCEPT
                      !.status = "processing",
                      !.payment_intent = 1,
                      !.pushes = IF st = "created" THEN 0 ELSE 1]>>
    /\ delivered = <<0, 1>>
    /\ enqueued = {1}
    /\ schedule = [cancel_subscription |-> FALSE, downgrade_to_free |-> TRUE]
    /\ renewal_result = [renewed |-> 0, failed |-> 0, skipped |-> 0]
    /\ dw = [w \in DunningWorkers |-> IdleDunning]
    /\ termApplied = [s \in Subs |-> 0]
    /\ notified = <<>>
    /\ NoWebhooks
    /\ NoReconcile
    /\ NoGateways
    /\ NoCallbacks
    /\ NoRequests
    /\ NoNotifications

NextCleanup ==
    \/ \E a \in 1..Len(attempts) :
          \E r \in Suffixes(attempts[a].subscription, attempts[a].attempt_number) :
             initiate_subscription_payment_begin(a, r)
    \/ \E run \in pending_push : initiate_subscription_payment_response(run)
    \/ \E run \in pending_push : initiate_subscription_payment_response_without_id(run)
    \/ \E run \in pending_push :
          \E sent \in BOOLEAN : initiate_subscription_payment_failure(run, sent)
    \/ cleanup_expired_intents
    \/ Tick

SpecCleanup == InitCleanup /\ [][NextCleanup]_vars

----------------------------------------------------------------------------
\* The payment task and the expiry sweep as they are scheduled.  The broker
\* hands every enqueued task to a worker, a run of the task ends with the
\* provider's answer or an exception (the requests carry timeout=30,
\* mpesa.py 155, airtel.py 144), and Celery beat starts the expiry sweep every
\* day (lms_config/celery.py 37-40).

FairPush ==
    /\ WF_vars(\E a \in 1..Len(attempts) :
                  \E r \in Suffixes(attempts[a].subscription, attempts[a].attempt_number) :
                     initiate_subscription_payment_begin(a, r))
    /\ WF_vars(\E a \in 1..Len(attempts) :
                  \E r \in Suffixes(attempts[a].subscription, attempts[a].attempt_number) :
                     initiate_subscription_payment_no_provider(a, r))
    /\ WF_vars(\E run \in pending_push :
                  \/ initiate_subscription_payment_response(run)
                  \/ initiate_subscription_payment_response_without_id(run)
                  \/ \E sent \in BOOLEAN : initiate_subscription_payment_failure(run, sent))
    /\ WF_vars(cleanup_expired_intents)
    /\ WF_vars(Tick)

SpecExpiry == InitPush /\ [][NextPush]_vars /\ FairPush

----------------------------------------------------------------------------
\* Notifications (notifications/models.py, notifications/tasks.py).  Times of
\* day are whole hours; a NotificationLog row keeps the fields the sender reads
\* and writes, and attempt_number is the number written in a dunning
\* reminder's body.

MaxNotifications == 2

LastHour == 24

\* NotificationLog.max_retries, the model default
notification_max_retries == 3

NOTIFICATION_TYPE_CHOICES == {"email", "sms"}

\* the attempt numbers process_dunning_schedule passes on: the retries
RetryNumbers == 2..(MaxRetries + 1)

\* NotificationLog.objects.create(...) of send_dunning_notification: the model
\* defaults fill status, retry_count and next_retry_at
DunningReminder(n) ==
    [notification_type |-> "email", event_type |-> "dunning_reminder",
     status |-> "pending", error_message |-> "", retry_count |-> 0,
     next_retry_at |-> NoTime, sent_at |-> NoTime, attempt_number |-> n]

\* rows entered through the admin site (notifications/admin.py): the model
\* has no other writer of status queued or of next_retry_at
AdminRows ==
    {[notification_type |-> ty, event_type |-> "custom", status |-> st,
      error_message |-> "", retry_count |-> 0, next_retry_at |-> at,
      sent_at |-> NoTime, attempt_number |-> 0] :
        ty \in NOTIFICATION_TYPE_CHOICES, st \in {"pending", "queued"}, at \in {NoTime, SweepIntervalHours}}

\* the preferences of the seeded learner (seed_data.py 138-142), the model
\* defaults, quiet hours within one day, and a user who disabled e-mail
PreferenceChoices ==
    {DefaultPreference,
     [DefaultPreference EXCEPT !.quiet_hours_start = 22, !.quiet_hours_end = 7],
     [DefaultPreference EXCEPT !.quiet_hours_start = 1, !.quiet_hours_end = 5],
     [DefaultPreference EXCEPT !.email_enabled = FALSE]}

\* ACS_CONNECTION_STRING and ACS_SMS_FROM, empty unless the environment sets them
AcsSettings ==
    {[connection_string |-> FALSE, sms_from |-> FALSE],
     [connection_string |-> TRUE, sms_from |-> FALSE],
     [connection_string |-> TRUE, sms_from |-> TRUE]}

\* now.time()
current_time(t) == t % HoursPerDay

\* NotificationLog.can_retry
can_retry(n) == n.status = "failed" /\ n.retry_count < notification_max_retries

\* the queryset of send_pending_notifications: a NULL next_retry_at is not <= now
pending_notifications ==
    {i \in 1..Len(notification_log) :
        \/ /\ notification_log[i].status = "pending"
           /\ notification_log[i].next_retry_at # NoTime
           /\ notification_log[i].next_retry_at <= now
        \/ notification_log[i].status = "queued"}

\* the quiet-hours test of send_pending_notifications, both branches as written
in_quiet_hours(prefs, t) ==
    /\ prefs.respect_quiet_hours
    /\ prefs.quiet_hours_start # NoTime
    /\ prefs.quiet_hours_end # NoTime
    /\ IF prefs.quiet_hours_start < prefs.quiet_hours_end
       THEN t >= prefs.quiet_hours_start \/ t <= prefs.quiet_hours_end
       ELSE \/ prefs.quiet_hours_start <= t /\ t <= HoursPerDay - 1
            \/ 0 <= t /\ t <= prefs.quiet_hours_end

\* whether the channel of a row is configured (send_email_notification,
\* send_sms_notification)
channel_configured(n) ==
    IF n.notification_type = "email"
    THEN acs_settings.connection_string
    ELSE acs_settings.connection_string /\ acs_settings.sms_from

\* the except branch of the loop: the row as it is saved
send_raised(n) ==
    LET counted == [n EXCEPT !.retry_count = @ + 1, !.error_message = "send raised"]
    IN  [counted EXCEPT !.status = "failed"]

\* whether the except branch reaches timedelta, which the module never imports:
\* the NameError leaves the handler, the row is not saved and the run ends
handler_raises(n, ok) ==
    /\ ~ok
    /\ can_retry([n EXCEPT !.retry_count = @ + 1])

\* one pass of the loop body over a row, ok telling whether the send went through
notify(n, ok) ==
    IF n.notification_type = "email" /\ ~notification_preference.email_enabled
    THEN [n EXCEPT !.status = "failed",
                   !.error_message = "Email notifications disabled by user"]
    ELSE IF n.notification_type = "sms" /\ ~notification_preference.sms_enabled
    THEN [n EXCEPT !.status = "failed",
                   !.error_message = "SMS notifications disabled by user"]
    ELSE IF in_quiet_hours(notification_preference, current_time(now))
    THEN n
    ELSE IF ~channel_configured(n)
    THEN [n EXCEPT !.status = "failed",
                   !.error_message = IF n.notification_type = "email"
                                     THEN "ACS not configured"
                                     ELSE "ACS SMS not configured"]
    ELSE IF ok
    THEN [n EXCEPT !.status = "sent", !.sent_at = now]
    ELSE IF handler_raises(n, ok)
    THEN n
    ELSE send_raised(n)

\* whether the send of a row is attempted
sending(n) ==
    /\ ~(n.notification_type = "email" /\ ~notification_preference.email_enabled)
    /\ ~(n.notification_type = "sms" /\ ~notification_preference.sms_enabled)
    /\ ~in_quiet_hours(notification_preference, current_time(now))
    /\ channel_configured(n)

\* the rows send_dunning_notification created
dunning_reminders ==
    {i \in 1..Len(notification_log) : notification_log[i].event_type = "dunning_reminder"}

\* send_dunning_notification: without an active e-mail template named
\* dunning_reminder nothing is created
send_dunning_notification(s, n) ==
    /\ Cardinality(dunning_reminders) < MaxNotifications
    /\ \E template \in BOOLEAN :
          notification_log' = IF template
                              THEN Append(notification_log, DunningReminder(n))
                              ELSE notification_log
    /\ UNCHANGED <<notification_preference, acs_settings>>
    /\ UNCHANGED <<billingVars, webhookVars, reconVars, pending_push, gatewayVars,
                   callbackVars, requestVars>>

\* one run of send_pending_notifications.  The rows come newest first
\* (Meta.ordering), so a run that ends at row j has handled the rows after j.
send_pending_notifications ==
    /\ \E ok \in [1..Len(notification_log) -> BOOLEAN] :
          LET reached(i) == /\ i \in pending_notifications
                            /\ \A j \in pending_notifications :
                                  j > i => ~(sending(notification_log[j])
                                             /\ handler_raises(notification_log[j], ok[j]))
          IN  notification_log' =
                  [i \in 1..Len(notification_log) |->
                      IF reached(i) THEN notify(notification_log[i], ok[i])
                                    ELSE notification_log[i]]
    /\ UNCHANGED <<notification_preference, acs_settings>>
    /\ UNCHANGED <<billingVars, webhookVars, reconVars, pending_push, gatewayVars,
                   callbackVars, requestVars>>

\* the clock between two runs
NotificationTick ==
    /\ now + SweepIntervalHours <= LastHour
    /\ now' = now + SweepIntervalHours
    /\ UNCHANGED <<sub, paymethod, schedule, attempts, intents, enqueued, delivered,
                   renewal_result, dw, termApplied, notified>>
    /\ UNCHANGED <<webhookVars, sideVars>>

InitNotifications ==
    /\ QuietBilling
    /\ NoWebhooks
    /\ NoReconcile
    /\ NoGateways
    /\ NoCallbacks
    /\ NoRequests
    /\ notification_log \in {<<>>} \cup {<<n>> : n \in AdminRows}
    /\ notification_preference \in PreferenceChoices
    /\ acs_settings \in AcsSettings

NextNotifications ==
    \/ \E s \in Subs : \E n \in RetryNumbers : send_dunning_notification(s, n)
    \/ send_pending_notifications
    \/ NotificationTick

SpecNotifications == InitNotifications /\ [][NextNotifications]_vars

\* Celery beat starts send_pending_notifications every 15 minutes
\* (lms_config/celery.py 42-45) and time passes
FairNotifications ==
    /\ WF_vars(send_pending_notifications)
    /\ WF_vars(NotificationTick)

SpecNotificationsFair == InitNotifications /\ [][NextNotifications]_vars /\ FairNotifications

----------------------------------------------------------------------------
\* Claims

in_flight(s) == {a \in renewal_attempts(s) : attempts[a].status \in {"pending", "processing"}}

\* C1: every subscription has, in its billing period (current_period_end never
\* changes here), at most one RenewalAttempt that is pending or processing.
C1_OneInFlightAttempt == \A s \in Subs : Cardinality(in_flight(s)) <= 1

intents_of(a) == {i \in 1..Len(intents) : intents[i].attempt = a}

\* C2: there is at most one PaymentIntent per idempotency key, and a create
\* with a key in use is answered with the existing intent, never with an error:
\* no run of the task ends in the IntegrityError of the unique constraint.
C2_ReplayReturnsIntent ==
    /\ \A i, j \in 1..Len(intents) :
          intents[i].idempotency_key = intents[j].idempotency_key => i = j
    /\ \A a \in 1..Len(attempts) : attempts[a].error_message # "IntegrityError"

\* C3: for every RenewalAttempt at most one PaymentIntent is created and at
\* most one provider push is sent, however often its task is delivered.
C3_OneIntentOnePush ==
    \A a \in 1..Len(attempts) :
        /\ Cardinality(intents_of(a)) <= 1
        /\ attempts[a].pushes <= 1

\* the deliveries that carry provider_event_id id
deliveries_of(id) ==
    {h \in 1..Len(handlers) : provider_event_id(handlers[h].payload) = id}

\* C4: of the deliveries that share a provider_event_id one at most gets past
\* the dedup step, and settlement runs at most once for the id; every other
\* delivery is marked ignored in a step that changes no intent, Payment or
\* LedgerEntry, and does nothing after it.
C4_SettlementOncePerEvent ==
    [][/\ \A id \in DOMAIN settled' :
             /\ settled'[id] <= 1
             /\ \A h, g \in deliveries_of(id)' :
                   handlers'[h].event # 0 /\ handlers'[g].event # 0 => h = g
             /\ \A h \in deliveries_of(id)' :
                   handlers'[h].pc # "insert" /\ handlers'[h].event = 0
                   => /\ handlers'[h].outcome = "ignored"
                      /\ handlers'[h].pc = "done"
                      /\ handlers'[h].writes = 0
       /\ \A h \in 1..Len(handlers) :
             /\ handlers[h].outcome # "ignored" /\ handlers'[h].outcome = "ignored"
                => intents' = intents /\ payments' = payments /\ ledger' = ledger
                   /\ events' = events
             /\ handlers[h].outcome = "ignored" => handlers'[h] = handlers[h]]_vars

\* C4 witness: an event was settled into a Payment once and two more
\* deliveries of it were ignored
C4_Witness ==
    \E id \in DOMAIN settled :
        /\ settled[id] = 1
        /\ \E h \in deliveries_of(id) :
              handlers[h].outcome = "processed" /\ handlers[h].payment # 0
        /\ Cardinality({h \in deliveries_of(id) : handlers[h].outcome = "ignored"}) = 2

\* the entries the ledger L holds for payment p
entries_of(L, p) ==
    LET of_p(x) == x.payment = p
    IN  SelectSeq(L, of_p)

\* the entries settlement posted for payment p
settlement_entries_of(p) ==
    LET posted(x) == x.payment = p /\ x.source = "settlement"
    IN  SelectSeq(ledger, posted)

\* h and g, g arriving while h was being handled, carry the identical callback:
\* successful, for an existing intent, with the intent's amount
concurrent_duplicates(h, g) ==
    /\ h \in handlers[g].during
    /\ handlers[h].payload = handlers[g].payload
    /\ handlers[h].payload.ResultCode = 0
    /\ resolve_intent(handlers[h].payload.CheckoutRequestID) # 0
    /\ ItemValue(handlers[h].payload, "Amount")
          = intents[resolve_intent(handlers[h].payload.CheckoutRequestID)].amount

\* C5: when the identical successful callback was delivered twice concurrently
\* (and the event was delivered with no other content) and every delivery of
\* it has been handled, there is exactly one Payment for the intent, settlement
\* posted exactly one set of entries for it, one debit and one credit of the
\* amount, and no delivery ended in an error.
C5_ConcurrentDuplicateOnePayment ==
    \A h, g \in 1..Len(handlers) :
        LET id == provider_event_id(handlers[h].payload)
            i == resolve_intent(handlers[h].payload.CheckoutRequestID)
            paid == {k \in 1..Len(payments) : payments[k].payment_intent = i}
        IN  (/\ concurrent_duplicates(h, g)
             /\ \A d \in deliveries_of(id) :
                   /\ handlers[d].payload = handlers[h].payload
                   /\ handlers[d].pc \in {"done", "error"})
            => /\ Cardinality(paid) = 1
               /\ \A k \in paid :
                     /\ Len(settlement_entries_of(k)) = 2
                     /\ entry_sum(settlement_entries_of(k), "debit") = payments[k].amount
                     /\ entry_sum(settlement_entries_of(k), "credit") = payments[k].amount
               /\ \A d \in deliveries_of(id) : handlers[d].outcome # "error"
               /\ intents[i].status = "succeeded"

\* C5 witness: both deliveries are handled, and the one that arrived second
\* won the dedup and settled the intent
C5_Witness ==
    \E h, g \in 1..Len(handlers) :
        /\ concurrent_duplicates(h, g)
        /\ handlers[h].outcome = "ignored"
        /\ handlers[g].outcome = "processed"
        /\ handlers[g].payment # 0

\* C6: after every step the debit entries of every Payment sum to the same
\* amount as its credit entries; the ledger only grows at its end (no entry is
\* updated or deleted); and a Post whose entries do not balance is recorded as
\* not persisted and leaves the ledger as it was.
C6_LedgerBalancedAppendOnly ==
    [][/\ \A p \in 1..Len(payments') :
             entry_sum(entries_of(ledger', p), "debit")
                = entry_sum(entries_of(ledger', p), "credit")
       /\ Len(ledger') >= Len(ledger)
       /\ SubSeq(ledger', 1, Len(ledger)) = ledger
       /\ \A k \in 1..Len(post_log') :
             entry_sum(post_log'[k].entries, "debit")
                # entry_sum(post_log'[k].entries, "credit")
             => /\ ~post_log'[k].persisted
                /\ k > Len(post_log) => ledger' = ledger]_vars

\* C6 witness: a Payment has its two settlement entries, and a Post of
\* unbalanced entries for it was refused
C6_Witness ==
    /\ Len(ledger) = 2
    /\ \E p \in 1..Len(payments) : Len(entries_of(ledger, p)) = 2
    /\ \E k \in 1..Len(post_log) :
          /\ ~post_log[k].persisted
          /\ entry_sum(post_log[k].entries, "debit")
                # entry_sum(post_log[k].entries, "credit")

\* the delivery h resolved an intent and settlement has handled it, and the
\* callback was successful with an amount other than the intent's
mismatched(h) ==
    /\ handlers[h].intent # 0
    /\ handlers[h].pc # "settle"
    /\ handlers[h].payload.ResultCode = 0
    /\ ItemValue(handlers[h].payload, "Amount") # intents[handlers[h].intent].amount

\* C7: when a callback resolved an intent and its amount differs from the
\* intent's, the intent is failed with ValidationMismatch, the event is failed
\* with the same error, no Payment and no LedgerEntry exists for the intent,
\* and the intent's amount is the one it was created with.
C7_AmountMismatchFails ==
    \A h \in 1..Len(handlers) :
        mismatched(h)
        => /\ intents[handlers[h].intent].status = "failed"
           /\ intents[handlers[h].intent].error_message = "ValidationMismatch"
           /\ intents[handlers[h].intent].amount = SeedPrice
           /\ events[handlers[h].event].status = "failed"
           /\ events[handlers[h].event].error_message = "ValidationMismatch"
           /\ handlers[h].payment = 0
           /\ \A k \in 1..Len(payments) :
                 payments[k].payment_intent # handlers[h].intent
           /\ \A x \in 1..Len(ledger) :
                 payments[ledger[x].payment].payment_intent # handlers[h].intent

\* C7 witness: a callback 50 cents above the intent's amount was handled, while
\* a callback for the other intent was settled into a Payment
C7_Witness ==
    \E h \in 1..Len(handlers) :
        /\ mismatched(h)
        /\ handlers[h].pc = "done"
        /\ \E g \in 1..Len(handlers) : handlers[g].outcome = "processed" /\ handlers[g].payment # 0

\* the retries the dunning sweep created for s, and the day (counted from the
\* first failure at hour 0) each was created on
retries(s) == {a \in renewal_attempts(s) : attempts[a].origin = "dunning"}
day_of(a) == attempts[a].created_at \div HoursPerDay

\* C8: with retry offsets [0, 1, 3, 7], when the renewal failed on day 0 and
\* every retry failed too, the sweeps have created at most one retry on each of
\* the days 0, 1, 3, 7 and none on any other day.
C8_RetriesOnScheduleDays ==
    \A s \in Subs :
        (/\ \E a \in renewal_attempts(s) :
                attempts[a].origin = "first" /\ attempts[a].status = "failed"
         /\ \A a \in retries(s) : attempts[a].status = "failed")
        => \A a \in retries(s) :
              /\ day_of(a) \in {0, 1, 3, 7}
              /\ \A b \in retries(s) : day_of(b) = day_of(a) => b = a

\* C9: the terminal action is applied at most once to a subscription, over
\* repeated and overlapping sweeps.
C9_TerminalActionOnce == \A s \in Subs : termApplied[s] <= 1

\* C10: a run of cleanup_expired_intents cancels every intent that is created
\* or requires_action and past expires_at, and leaves every other intent as it
\* is; over all runs the sweep cancels an intent at most once.
C10_ExpiredCancelledOnce ==
    [][\A i \in 1..Len(intents) :
          /\ cleanup_expired_intents =>
                IF /\ intents[i].status \in {"created", "requires_action"}
                   /\ intents[i].expires_at < now
                THEN /\ intents'[i].status = "cancelled"
                     /\ intents'[i].cancels = intents[i].cancels + 1
                ELSE intents'[i] = intents[i]
          /\ intents'[i].cancels <= 1]_vars

\* the payments created on the day before the current one
created_yesterday ==
    {k \in 1..Len(payments) :
        payments[k].created_at \div HoursPerDay = (now \div HoursPerDay) - 1}

\* C11: when the window holds exactly one Payment and its Order is pending, a
\* run of the job reports exactly one mismatch and sends exactly one alert.
C11_OnePendingOneMismatch ==
    (/\ reconcile_result.runs >= 1
     /\ Cardinality(created_yesterday) = 1
     /\ \A k \in created_yesterday : orders[payments[k].order].status = "pending")
    => /\ reconcile_result.mismatches = 1
       /\ admin_alerts = reconcile_result.runs

\* C11 as amended: when the window holds exactly one Payment, its Order is
\* pending and a processed WebhookEvent is linked to it, a run of the job
\* reports exactly one mismatch and sends exactly one alert.
C11_OnePendingWithEventOneMismatch ==
    (/\ reconcile_result.runs >= 1
     /\ Cardinality(created_yesterday) = 1
     /\ \A k \in created_yesterday :
           /\ orders[payments[k].order].status = "pending"
           /\ \E e \in 1..Len(events) :
                 events[e].payment = k /\ events[e].status = "processed")
    => /\ reconcile_result.mismatches = 1
       /\ reconcile_result.total_payments = 1
       /\ admin_alerts = reconcile_result.runs

\* C11 witness: the job has run on a database with one payment of yesterday,
\* its order pending and its event processed, and a payment of today whose
\* order is pending too
C11_Witness ==
    /\ reconcile_result.runs >= 1
    /\ Cardinality(created_yesterday) = 1
    /\ \A k \in created_yesterday :
          /\ orders[payments[k].order].status = "pending"
          /\ \E e \in 1..Len(events) :
                events[e].payment = k /\ events[e].status = "processed"
    /\ \E k \in 1..Len(payments) :
          /\ k \notin created_yesterday
          /\ payments[k].created_at > now - ReconcileHour - 1
          /\ orders[payments[k].order].status = "pending"

\* C12: a run of the job changes no Payment, Order, WebhookEvent,
\* PaymentIntent or LedgerEntry, whatever it finds.
C12_ReconcileMutatesNothing ==
    [][reconcile_result'.runs # reconcile_result.runs
       => /\ payments' = payments
          /\ orders' = orders
          /\ events' = events
          /\ intents' = intents
          /\ ledger' = ledger]_vars

\* C12 witness: the job has run, found several mismatches and sent an alert
C12_Witness ==
    /\ reconcile_result.runs >= 1
    /\ reconcile_result.mismatches >= 2
    /\ admin_alerts >= 1
    /\ \E o \in 1..Len(orders) : orders[o].status = "pending"

\* C13: the attempts of a subscription carry strictly increasing attempt
\* numbers in creation order, also when sweeps overlap.
C13_AttemptNumbersIncrease ==
    \A a, b \in 1..Len(attempts) :
        (a < b /\ attempts[a].subscription = attempts[b].subscription)
        => attempts[a].attempt_number < attempts[b].attempt_number

\* C14: a subscription one of whose renewal attempts has ended in failed is no
\* longer active: the failure moved it to past_due.
C14_FailedAttemptLeavesActive ==
    \A a \in 1..Len(attempts) :
        attempts[a].status = "failed" => sub[attempts[a].subscription].status # "active"

\* C15: a run of the renewal sweep accounts for every subscription it
\* selected, each one skipped, renewed or counted as failed, and returns; a run
\* of the dunning sweep goes through its selection one subscription at a time
\* and returns only after the last one, also when an iteration raised.
C15_ErrorsStayInTheirIteration ==
    [][/\ renewal_result' # renewal_result
          => renewal_result'.renewed + renewal_result'.failed + renewal_result'.skipped
                = Cardinality(subscriptions_due)
       /\ \A w \in DunningWorkers :
             dw[w].pc \in {"loop", "apply"}
             => /\ dw'[w].queue \in {dw[w].queue, Tail(dw[w].queue)}
                /\ dw'[w].pc = "idle" => Tail(dw[w].queue) = <<>>
                /\ dw'[w].pc # "idle" => dw'[w].now = dw[w].now]_vars

\* C15 witness: a dunning sweep whose iteration for s1 raised before the payment
\* task was enqueued has gone on to s2, enqueued its retry and returned
C15_Witness ==
    \E a, b \in 1..Len(attempts) :
        /\ a < b
        /\ attempts[a].origin = "dunning" /\ attempts[a].subscription = "s1"
        /\ a \notin enqueued /\ delivered[a] = 0
        /\ attempts[b].origin = "dunning" /\ attempts[b].subscription = "s2"
        /\ b \in enqueued
        /\ attempts[a].scheduled_at = attempts[b].scheduled_at
        /\ \A w \in DunningWorkers : dw[w].pc = "idle"

\* the status changes the state machine of a PaymentIntent allows
IntentTransitions ==
    {<<"created", "requires_action">>, <<"requires_action", "processing">>,
     <<"processing", "succeeded">>, <<"processing", "failed">>,
     <<"processing", "cancelled">>,
     <<"created", "cancelled">>, <<"requires_action", "cancelled">>}

\* C16: every change of an intent's status is one the state machine allows; in
\* particular an intent that is succeeded, failed or cancelled keeps its status.
C16_IntentStateMachine ==
    [][\A i \in 1..Len(intents) :
          intents'[i].status # intents[i].status
          => <<intents[i].status, intents'[i].status>> \in IntentTransitions]_vars

\* the hour the first attempt of s was created: the failure the retry offsets
\* are counted from
first_failure(s) ==
    attempts[CHOOSE a \in renewal_attempts(s) : \A b \in renewal_attempts(s) : a <= b].created_at

\* C17: a subscription goes from past_due to cancelled or unpaid only in a step
\* taken strictly after grace_until and when every offset of the retry schedule,
\* counted in days from the failure, has been reached.
C17_TerminalOnlyAfterScheduleAndGrace ==
    [][\A s \in Subs :
          (sub[s].status = "past_due" /\ sub'[s].status \in {"cancelled", "unpaid"})
          => /\ sub[s].grace_until # NoTime
             /\ now > sub[s].grace_until
             /\ \A k \in 1..Len(get_retry_days) :
                   first_failure(s) + get_retry_days[k] * HoursPerDay <= now]_vars

mpesa_contract(cb, p) ==
    /\ p.success <=> (cb.ResultCode = 0)
    /\ {"result_code", "result_desc", "merchant_request_id", "checkout_request_id"}
          \subseteq p.keys
    /\ p.result_code = cb.ResultCode
    /\ p.result_desc = cb.ResultDesc
    /\ p.merchant_request_id = cb.MerchantRequestID
    /\ p.checkout_request_id = cb.CheckoutRequestID
    /\ "amount" \in p.keys <=> (cb.ResultCode = 0 /\ \E it \in cb.Item : it[1] = "Amount")
    /\ "receipt_number" \in p.keys
          <=> (cb.ResultCode = 0 /\ \E it \in cb.Item : it[1] = "MpesaReceiptNumber")
    /\ "phone_number" \in p.keys
          <=> (cb.ResultCode = 0 /\ \E it \in cb.Item : it[1] = "PhoneNumber")
    /\ "amount" \in p.keys => p.amount = ItemValue(cb, "Amount")
    /\ "receipt_number" \in p.keys => p.receipt_number = ItemValue(cb, "MpesaReceiptNumber")
    /\ "phone_number" \in p.keys => p.phone_number = ItemValue(cb, "PhoneNumber")

\* C19: for every M-Pesa callback, success is true exactly when ResultCode is 0,
\* result_code, result_desc and both request ids are carried unchanged, and
\* amount, receipt_number and phone_number are filled from the items exactly
\* for a successful callback.
C19_MpesaParseCallback ==
    callback_data.provider = "mpesa" =>
        mpesa_contract(callback.payload, callback_data.parsed)

\* C19 as the parser keeps it: the same for every callback whose metadata it can
\* read; a successful callback whose Amount is no number yields success = false
\* and the error, nothing else.
C19_MpesaParseReadableCallback ==
    callback_data.provider = "mpesa" =>
        IF /\ callback.payload.ResultCode = 0
           /\ \E it \in callback.payload.Item : it[1] = "Amount" /\ ~it[3]
        THEN /\ callback_data.parsed.keys = {"success", "error"}
             /\ ~callback_data.parsed.success
        ELSE mpesa_contract(callback.payload, callback_data.parsed)

\* a successful callback was parsed and its amount, receipt and phone filled
C19_Witness ==
    /\ callback_data.provider = "mpesa"
    /\ callback.payload.ResultCode = 0
    /\ callback_data.parsed.success
    /\ {"amount", "receipt_number", "phone_number"} \subseteq callback_data.parsed.keys
    /\ callback_data.parsed.amount = SeedPrice

\* what the claim says of the dict p parsed from the Airtel body cb
airtel_contract(cb, p) ==
    /\ p.success <=> cb.status \in {"TS", "SUCCESS"}
    /\ {"status", "transaction_id"} \subseteq p.keys
    /\ p.status = cb.status
    /\ p.transaction_id = cb.id
    /\ "amount" \in p.keys <=> "amount" \in cb.fields
    /\ "amount" \in p.keys => p.amount = cb.amount[1]
    /\ "currency" \in p.keys <=> "currency" \in cb.fields
    /\ "currency" \in p.keys => p.currency = cb.currency
    /\ "phone_number" \in p.keys => cb.has_subscriber
    /\ (\E kv \in cb.subscriber : kv[1] = "msisdn")
          => /\ "phone_number" \in p.keys
             /\ \E kv \in cb.subscriber : kv[1] = "msisdn" /\ kv[2] = p.phone_number

\* C20: for every Airtel callback, success is true exactly when the status is
\* TS or SUCCESS, status, transaction id, amount and currency are carried
\* through whatever the status, and phone_number is filled only when the
\* payload has a subscriber part.
C20_AirtelParseCallback ==
    callback_data.provider = "airtel" =>
        airtel_contract(callback.payload, callback_data.parsed)

\* C20 as the parser keeps it: the same for every callback whose amount it can
\* read; a callback whose amount is no number yields success = false and the
\* error, nothing else.
C20_AirtelParseReadableCallback ==
    callback_data.provider = "airtel" =>
        IF "amount" \in callback.payload.fields /\ ~callback.payload.amount[2]
        THEN /\ callback_data.parsed.keys = {"success", "error"}
             /\ ~callback_data.parsed.success
        ELSE airtel_contract(callback.payload, callback_data.parsed)

\* a callback with status SUCCESS and a subscriber was parsed
C20_Witness ==
    /\ callback_data.provider = "airtel"
    /\ callback.payload.status = "SUCCESS"
    /\ callback_data.parsed.success
    /\ {"amount", "currency", "phone_number"} \subseteq callback_data.parsed.keys
    /\ callback_data.parsed.phone_number = 712

\* what adapter prov sends for the number text
sent_number(prov, text) ==
    IF prov = "mpesa" THEN mpesa_phone_number(text) ELSE airtel_phone_number(text)

\* C21: whichever of the three forms the payer's number is stored in, the
\* request of either adapter carries 254 followed by the subscriber number, and
\* normalizing the number sent gives the number sent.
C21_PhoneSentInternational ==
    \A r \in requests :
        /\ r.msisdn = CountryCode \o payer.national
        /\ sent_number(r.provider, r.msisdn) = r.msisdn

\* C21 as the adapters keep it: the M-Pesa request carries 254 followed by the
\* subscriber number, the Airtel request 0 followed by the subscriber number,
\* whichever form the number is stored in; normalizing the number sent gives
\* the number sent.
C21_PhoneSentPerProvider ==
    \A r \in requests :
        /\ r.provider = "mpesa" => r.msisdn = CountryCode \o payer.national
        /\ r.provider = "airtel" => r.msisdn = <<"0">> \o payer.national
        /\ sent_number(r.provider, r.msisdn) = r.msisdn

\* a number stored as +254... was sent by both adapters
C21_Witness ==
    /\ payer.form = "plus"
    /\ \E r \in requests : r.provider = "mpesa" /\ r.msisdn # payer.text
    /\ \E r \in requests : r.provider = "airtel" /\ r.msisdn # payer.text

\* the subscriptions a renewal sweep run now has to renew
renewable == {s \in subscriptions_due : existing_attempt(s) = {}}

\* C22: a process_subscription_renewals sweep creates, for every subscription
\* that is active, due and without an in-flight attempt of the period, exactly
\* one pending RenewalAttempt numbered count + 1, one Order, and one enqueued
\* payment initiation, and creates nothing for any other subscription.
C22_SweepRenewsDueSubscriptions ==
    [][process_subscription_renewals =>
          /\ Len(attempts') = Len(attempts) + Cardinality(renewable)
          /\ Len(orders') = Len(orders) + Cardinality(renewable)
          /\ \A s \in renewable :
                \E a \in (Len(attempts) + 1)..Len(attempts') :
                   /\ attempts'[a].subscription = s
                   /\ attempts'[a].status = "pending"
                   /\ attempts'[a].attempt_number = Cardinality(renewal_attempts(s)) + 1
                   /\ a \in enqueued'
          /\ \A a \in 1..Len(attempts) : attempts'[a] = attempts[a]]_vars

\* whole days from the first failed attempt of s to hour t
days_since_first_failure(s, t) == (t - first_failure(s)) \div HoursPerDay

\* C23: in every iteration of the dunning sweep the retry is decided by the
\* number of whole days since the subscription's first failed attempt: the
\* iteration creates a retry exactly when that number is one of the offsets,
\* whether or not a retry has failed since.
C23_DayCountFromFirstFailure ==
    [][\A w \in DunningWorkers :
          (process_dunning_schedule_decide(w) /\ latest_attempt(Head(dw[w].queue).id) # 0)
          => (dw'[w].retry <=>
                 \E k \in 1..Len(get_retry_days) :
                    get_retry_days[k] =
                       days_since_first_failure(Head(dw[w].queue).id, dw[w].now))]_vars

\* C24: a retry is created only in a sweep iteration that finds the day count
\* equal to an offset; an iteration that finds the count past an offset for
\* which no retry was created creates none, so a missed offset is not made up.
C24_MissedOffsetNotMadeUp ==
    [][/\ \A w \in DunningWorkers :
             (process_dunning_schedule_decide(w) /\ latest_attempt(Head(dw[w].queue).id) # 0)
             => (dw'[w].retry <=>
                    \E k \in 1..Len(get_retry_days) :
                       get_retry_days[k] =
                          (dw[w].now
                             - attempts[latest_attempt(Head(dw[w].queue).id)].created_at)
                          \div HoursPerDay)
       /\ Len(attempts') > Len(attempts)
             => \E w \in DunningWorkers :
                   /\ dw[w].pc = "apply"
                   /\ dw[w].retry
                   /\ attempts'[Len(attempts')].subscription = Head(dw[w].queue).id]_vars

\* no sweep created a retry on day 1, and the sweep of day 2 decides to create
\* none
C24_Witness ==
    /\ now = 2 * HoursPerDay
    /\ \A a \in 1..Len(attempts) : attempts[a].created_at # HoursPerDay
    /\ \E w \in DunningWorkers :
          /\ dw[w].pc = "apply"
          /\ dw[w].now = now
          /\ ~dw[w].retry
          /\ days_since_failure(now, latest_attempt(Head(dw[w].queue).id)) = 2

\* C25: the dunning sweep creates a retry only for a subscription without a
\* pending or processing attempt, so no past_due subscription ever has two
\* attempts in flight.
C25_NoRetryWhileInFlight ==
    [][/\ \A w \in DunningWorkers :
             (process_dunning_schedule_apply(w) /\ Len(attempts') > Len(attempts))
             => in_flight(Head(dw[w].queue).id) = {}
       /\ \A s \in Subs :
             sub'[s].status = "past_due"
             => Cardinality({a \in 1..Len(attempts') :
                                /\ attempts'[a].subscription = s
                                /\ attempts'[a].status \in {"pending", "processing"}}) <= 1]_vars

\* C26: no run of initiate_subscription_payment sends a payment request for an
\* attempt whose subscription is cancelled or unpaid.
C26_NoPushAfterTerminalAction ==
    [][\A a \in 1..Len(attempts) :
          attempts'[a].pushes > attempts[a].pushes
          => sub[attempts[a].subscription].status \notin {"cancelled", "unpaid"}]_vars

\* C27: a sweep iteration that finds the grace period expired leaves the
\* subscription cancelled, with ended_at the sweep time, when the schedule
\* cancels, unpaid when it downgrades, and never past_due.
C27_TerminalActionByConfiguration ==
    [][\A w \in DunningWorkers :
          (/\ process_dunning_schedule_apply(w)
           /\ Head(dw[w].queue).grace_until # NoTime
           /\ dw[w].now > Head(dw[w].queue).grace_until)
          => LET s == Head(dw[w].queue).id
             IN  /\ schedule.cancel_subscription
                       => /\ sub'[s].status = "cancelled"
                          /\ sub'[s].ended_at = dw[w].now
                 /\ (schedule.downgrade_to_free /\ ~schedule.cancel_subscription)
                       => sub'[s].status = "unpaid"
                 /\ sub'[s].status # "past_due"]_vars

\* C28: a subscription that is past_due is cancelled or unpaid at some later
\* time, and every step that makes a subscription past_due leaves it with a
\* grace_until.
C28_PastDueEventuallyLeft ==
    /\ \A s \in Subs :
          (sub[s].status = "past_due") ~> (sub[s].status \in {"cancelled", "unpaid"})
    /\ [][\A s \in Subs :
             (sub[s].status # "past_due" /\ sub'[s].status = "past_due")
             => sub'[s].grace_until # NoTime]_vars

\* C29: a run of initiate_subscription_payment for an attempt whose user has no
\* default active payment method leaves the attempt failed with the message of
\* the missing method, not that of an exception, leaves the subscription
\* past_due, creates no PaymentIntent and sends no payment request.
C29_NoMethodFailsAttempt ==
    [][\A a \in 1..Len(attempts) :
          (delivered'[a] = delivered[a] + 1 /\ paymethod[attempts[a].subscription] = "none")
          => /\ attempts'[a].status = "failed"
             /\ attempts'[a].error_message = "No default payment method"
             /\ sub'[attempts[a].subscription].status = "past_due"
             /\ intents' = intents
             /\ attempts'[a].payment_intent = attempts[a].payment_intent
             /\ attempts'[a].pushes = attempts[a].pushes]_vars

\* the payment task of the first renewal of an active subscription found no
\* payment method
C29_Witness ==
    \E a \in 1..Len(attempts) :
        /\ attempts[a].origin = "first"
        /\ delivered[a] = 1
        /\ attempts[a].error_message = "No default payment method"
        /\ sub[attempts[a].subscription].status = "past_due"
        /\ sub[attempts[a].subscription].grace_until = NoTime
        /\ intents = <<>>

\* C30: a run of initiate_subscription_payment whose token request fails sends
\* no payment request, leaves the attempt failed with the authentication
\* failure recorded, and is over: it asks for no second token, and it neither
\* creates nor enqueues another attempt.
C30_AuthenticationFailureEndsRun ==
    [][\A run \in pending_push :
          initiate_subscription_payment_failure(run, FALSE)
          => /\ attempts'[run.attempt].pushes = attempts[run.attempt].pushes
             /\ attempts'[run.attempt].status = "failed"
             /\ attempts'[run.attempt].error_message = "authentication failed"
             /\ run \notin pending_push'
             /\ Len(attempts') = Len(attempts)
             /\ enqueued' = enqueued
             /\ delivered' = delivered
             /\ intents' = intents]_vars

\* the token request of a run failed: its attempt is failed, no request was
\* sent, and the intent it created is still in created
C30_Witness ==
    \E a \in 1..Len(attempts) :
        /\ attempts[a].status = "failed"
        /\ attempts[a].error_message = "authentication failed"
        /\ attempts[a].pushes = 0
        /\ attempts[a].payment_intent # NoIntent
        /\ intents[attempts[a].payment_intent].status = "created"
        /\ \A run \in pending_push : run.attempt # a

\* @shared_task(bind=True, max_retries=3) on initiate_subscription_payment
max_retries == 3

\* C31: a run of initiate_subscription_payment whose push request fails on the
\* network sends the push again, up to max_retries pushes for the initiation:
\* the attempt is failed by a push failure only when that many pushes were
\* made, and never more are made.
C31_PushRetriedUpToCap ==
    [][\A run \in pending_push :
          initiate_subscription_payment_failure(run, TRUE)
          => /\ attempts'[run.attempt].pushes <= max_retries
             /\ attempts'[run.attempt].status = "failed"
                   => attempts'[run.attempt].pushes = max_retries]_vars

\* C32: every PaymentIntent in requires_action carries the reference the
\* provider answered the push with (checkout_request_id for M-Pesa,
\* provider_transaction_id for Airtel), its push has been answered, and its
\* payment method is one with a push: an intent of a card_stub method is never
\* in requires_action.
C32_RequiresActionHasReference ==
    \A i \in 1..Len(intents) :
        intents[i].status = "requires_action"
        => /\ intents[i].provider = "mpesa" => intents[i].checkout_request_id # 0
           /\ intents[i].provider = "airtel" => intents[i].provider_transaction_id # 0
           /\ attempts[intents[i].attempt].pushes >= 1
           /\ \A run \in pending_push : run.intent # i
           /\ paymethod[attempts[intents[i].attempt].subscription] \in {"mpesa", "airtel"}

\* C33: an intent becomes cancelled only in a step of cleanup_expired_intents,
\* and only when it was created or requires_action with expires_at strictly
\* before now; a run of the sweep leaves every other intent, and every
\* RenewalAttempt, Order and Subscription, as it was.
C33_CancelledOnlyByExpiry ==
    [][/\ \A i \in 1..Len(intents) :
             (intents[i].status # "cancelled" /\ intents'[i].status = "cancelled")
             => /\ cleanup_expired_intents
                /\ intents[i].status \in {"created", "requires_action"}
                /\ intents[i].expires_at < now
       /\ cleanup_expired_intents
             => /\ \A i \in 1..Len(intents) :
                      ~(/\ intents[i].status \in {"created", "requires_action"}
                        /\ intents[i].expires_at < now)
                      => intents'[i] = intents[i]
                /\ attempts' = attempts
                /\ orders' = orders
                /\ sub' = sub]_vars

\* at hour 6 the sweep has cancelled the expired intent of s1 once and left the
\* intent of s2, which expires at hour 6, in requires_action
C33_Witness ==
    /\ now = SweepIntervalHours
    /\ Len(intents) >= 2
    /\ intents[1].status = "requires_action"
    /\ intents[1].expires_at = now
    /\ \E i \in 2..Len(intents) :
          /\ intents[i].status = "cancelled"
          /\ intents[i].cancels = 1
          /\ intents[i].expires_at < now

\* the attempt a is processing and the expiry sweep has cancelled its intent
stranded(a) ==
    /\ attempts[a].status = "processing"
    /\ attempts[a].payment_intent # NoIntent
    /\ intents[attempts[a].payment_intent].status = "cancelled"

\* C34: an attempt that is pending or processing is succeeded or failed at some
\* later time; checked in the case the claim singles out: an attempt that is
\* processing when the expiry sweep has cancelled its intent is succeeded or
\* failed at some later time.
C34_AttemptEventuallyTerminal ==
    \A a \in 1..Len(SubOrder) :
        stranded(a) ~> (attempts[a].status \in {"succeeded", "failed"})

\* C35: the amount a payment request carries is the amount of the intent, to
\* the cent, for every amount with up to two decimals and either provider.
C35_AmountSentExactly ==
    \A r \in requests : r.Amount = r.amount

\* C36: a run of process_subscription_renewals creates nothing for a
\* subscription whose period has had its renewal attempt, whatever became of
\* that attempt, and as many Orders as attempts; an attempt added for a
\* subscription that has one already is created by the dunning sweep.
C36_OneOrderPerPeriod ==
    [][/\ process_subscription_renewals
             => /\ \A a \in (Len(attempts) + 1)..Len(attempts') :
                      renewal_attempts(attempts'[a].subscription) = {}
                /\ Len(orders') - Len(orders) = Len(attempts') - Len(attempts)
       /\ \A a \in (Len(attempts) + 1)..Len(attempts') :
             renewal_attempts(attempts'[a].subscription) # {}
             => attempts'[a].origin = "dunning"]_vars

\* the renewal attempt of s1 failed with an exception, s1 is still active and
\* due, and a later sweep has run over s1 and s2 and created nothing
C36_Witness ==
    /\ now >= SweepIntervalHours
    /\ sub["s1"].status = "active"
    /\ renewal_result.failed = Cardinality(Subs)
    /\ Len(attempts) = 1
    /\ attempts[1].subscription = "s1"
    /\ attempts[1].status = "failed"
    /\ attempts[1].error_message = "push failed"

\* C37: after a run of reconcile_daily_payments the report holds, for every
\* Payment created on the day before the run, the issue that its Order is not
\* paid exactly when the Order's status is not paid, and the issue that it has
\* no processed webhook event exactly when no WebhookEvent with status
\* processed is linked to it; it holds nothing for any other Payment; and every
\* run has sent one alert when the report is not empty and none when it is.
C37_ReportExactlyTheMismatches ==
    reconcile_result.runs >= 1
    => /\ \A k \in 1..Len(payments) :
             /\ <<k, "Order not marked as paid">> \in reconcile_result.issues
                   <=> (k \in created_yesterday /\ orders[payments[k].order].status # "paid")
             /\ <<k, "No processed webhook event">> \in reconcile_result.issues
                   <=> (/\ k \in created_yesterday
                        /\ ~\E e \in 1..Len(events) :
                              events[e].payment = k /\ events[e].status = "processed")
       /\ reconcile_result.mismatches = Cardinality(reconcile_result.issues)
       /\ admin_alerts = IF reconcile_result.issues = {} THEN 0 ELSE reconcile_result.runs

\* the job has run twice over a payment of yesterday whose order is paid and
\* whose only event is failed, and a payment of today whose order is pending:
\* one issue, one alert per run
C37_Witness ==
    /\ reconcile_result.runs = 2
    /\ admin_alerts = 2
    /\ reconcile_result.mismatches = 1
    /\ \E k \in created_yesterday :
          /\ orders[payments[k].order].status = "paid"
          /\ \E e \in 1..Len(events) : events[e].payment = k /\ events[e].status = "failed"
    /\ \E k \in 1..Len(payments) :
          /\ k \notin created_yesterday
          /\ orders[payments[k].order].status = "pending"

\* the notification enqueued for the attempt a step has just created
notification_of_new_attempt ==
    <<attempts'[Len(attempts')].subscription, attempts'[Len(attempts')].attempt_number>>

outside_quiet_hours == ~in_quiet_hours(notification_preference, current_time(now))

awaiting(k) ==
    /\ k \in dunning_reminders
    /\ notification_log[k].status = "pending"
    /\ notification_log[k].next_retry_at = NoTime
    /\ notification_preference.email_enabled

settled_reminder(k) ==
    /\ k \in dunning_reminders
    /\ notification_log[k].status \in {"sent", "failed"}

C39_DunningReminderLeavesPending ==
    \A k \in 1..(MaxNotifications + 1) :
        []<>outside_quiet_hours => (awaiting(k) ~> settled_reminder(k))

====
